---- MODULE Spec2Model ----
(***************************************************************************)
(* Sensor-to-server delivery pipeline of open-uxi-platform                 *)
(* (internet-monitoring/pipeline): durable sensor queue, dispatcher,       *)
(* sensor agent, server chunk store, offset tracker, HTTP ingest front and *)
(* control manager.                                                        *)
(*                                                                         *)
(* Four specifications share the variables:                                *)
(*   QueueSpec - one sensor's queue file over enqueues, deletes, retention *)
(*               prunes and reopens;                                       *)
(*   DispSpec  - one sensor's queue file and dispatcher, driven by         *)
(*               arbitrary enqueues, chunk requests, acks and restarts;    *)
(*   StoreSpec - the server's HTTP ingest front, store and offsets, driven *)
(*               by arbitrary DataChunks and heartbeats of two sensors;    *)
(*   Spec      - one sensor and the server end to end.                     *)
(***************************************************************************)
EXTENDS Integers, Sequences, FiniteSets, TLC

VARIABLES
  now,                \* wall clock, time.time() (one clock for both sides)
  store_chunks,       \* server store file: rows of table chunks
  store_events,       \* server store file: table events, by (sensor_id, event_id)
  workers,            \* HTTP worker threads: where each is in ChunkStore.ingest
  offsets,            \* OffsetTracker._offsets
  sessions,           \* ControlManager._sessions: sensors with a session
  loop_tasks,         \* coroutines handed to the server's event loop, in order
  control_out,        \* control envelopes on their way to each sensor
  snapshot_cache,     \* SnapshotCache._snapshots
  clients,            \* SnapshotStreamer._clients: the observers registered
  stream_lock,        \* SnapshotStreamer._lock: its holder, then the
                      \* coroutines waiting for it in the order they asked
  coroutines,         \* the observers' _handler and the broadcast coroutines:
                      \* where each is and the message it publishes
  delivered,          \* per observer, the messages its connection was sent
  control_sessions,   \* ControlManager._sessions by connection: the
                      \* connection whose ControlSession a sensor_id maps to
                      \* (followed in RegistrySpec; sessions is its key set)
  handlers,           \* control_server._handler of each connection: where it
                      \* is, its sensor_id, whether its websocket is open
  pc,                 \* SensorAgent.run: "handshake" (head of the loop with
                      \* handshake_pending), "recv", "sending", "retry_sleep",
                      \* "recv_sleep" or "done"
  stop_event,         \* SensorAgent._stop_event is set
  heartbeat_task,     \* SensorAgent._heartbeat_loop: "running" or "done"
  agent_chunks,       \* SensorAgent._handle_chunk_request: chunks still to send
  send_backoff,       \* ExponentialBackoff._current of _send_chunk_with_backoff
  recv_backoff,       \* ExponentialBackoff._current of SensorAgent._backoff
  failures,           \* history: link failures so far
  pruned,             \* history: sequences removed by the queue's retention prune
  max_updated,        \* history: largest sequence passed to offsets.update
  assembled_calls,    \* history: per event, the ingest calls that returned a payload
  queue,              \* sensor queue file: rows of table chunks
  sqlite_sequence,    \* sensor queue file: AUTOINCREMENT high-water mark
  next_event,         \* number of event ids handed out by random_event_id
  windows,            \* ChunkDispatcher._windows: window_id -> set of sequences
  in_flight,          \* ChunkDispatcher._in_flight: sequence -> window_id
  last_ack_sequence,  \* ChunkDispatcher._last_ack_sequence
  outstanding,        \* history: (window_id, sequence) handed out by
                      \* build_chunks and not acked since
  returned,           \* history: sequences returned by enqueue, in order
  last                \* history: the operation that ran last, with its input

----------------------------------------------------------------------------
(* Bounds of the model *)

MaxTime == 1
MaxEnqueued == 3
MaxEvents == 3
MaxDispEnqueued == 2
MaxPayloadLen == 3

MaxWorkers == 2
MaxDelivered == 2
MaxStoreSeq == 2
MaxStored == 3
MaxChannel == 1
MaxSpecEnqueued == 2
MaxFairEnqueued == 3
MaxFailures == 1

(* Configuration, scaled down *)

ChunkSize == 2
QueueRetention == 0
StoreRetention == 0
SchedMaxChunks == 2
SchedMaxBytes == 5
SchedMaxInFlight == 2
BackoffBase == 1
BackoffFactor == 2
BackoffMax == 2

----------------------------------------------------------------------------
(* Generic helpers *)

Range(s) == {s[i] : i \in 1..Len(s)}

Max(a, b) == IF a >= b THEN a ELSE b

Min(a, b) == IF a <= b THEN a ELSE b

SetMax(S) == CHOOSE x \in S : \A y \in S : y <= x

SetMin(S) == CHOOSE x \in S : \A y \in S : x <= y

RECURSIVE SortedSeq(_)
SortedSeq(S) ==
  IF S = {} THEN << >>
  ELSE LET m == SetMin(S) IN <<m>> \o SortedSeq(S \ {m})

DropKey(f, k) == [x \in DOMAIN f \ {k} |-> f[x]]

PutKey(f, k, v) == [x \in DOMAIN f \cup {k} |-> IF x = k THEN v ELSE f[x]]

EmptyMap == [x \in {} |-> 0]

----------------------------------------------------------------------------
(* common/chunking.py *)

\* gzip.compress / gzip.decompress: a header byte in front of the data
GzipMagic == 31

GzipCompress(bytes) == <<GzipMagic>> \o bytes

GzipDecompress(bytes) == Tail(bytes)

\* hashlib.sha256(...).digest(), collision free
Sha256(bytes) == [digest_of |-> bytes]

Slice(bytes, start, end) == [i \in 1..(end - start) |-> bytes[start + i]]

CeilDiv(a, b) == (a + b - 1) \div b

RECURSIVE ChunkLoop(_, _, _, _, _)
ChunkLoop(payload, event_id, chunk_size, chunk_total, index) ==
  IF index >= chunk_total THEN << >>
  ELSE LET start == index * chunk_size
           end == Min(start + chunk_size, Len(payload))
           slice_bytes == Slice(payload, start, end)
           compressed == GzipCompress(slice_bytes)
       IN IF slice_bytes = << >> THEN << >>
          ELSE <<[event_id |-> event_id,
                  chunk_index |-> index,
                  chunk_count |-> chunk_total,
                  compression |-> "gzip",
                  payload |-> compressed,
                  chunk_hash |-> Sha256(compressed),
                  event_hash |-> Sha256(payload)]>>
               \o ChunkLoop(payload, event_id, chunk_size, chunk_total, index + 1)

chunk_payload(payload, event_id, chunk_size) ==
  ChunkLoop(payload, event_id, chunk_size,
            Max(1, CeilDiv(Len(payload), chunk_size)), 0)

----------------------------------------------------------------------------
(* sensor/queue.py *)

\* AUTOINCREMENT: the rowid of an insert is one more than the largest rowid
\* the table ever held, which sqlite keeps in sqlite_sequence
NextRowidNoAutoincrement(rows, high_water) ==
  (IF rows = {} THEN 0 ELSE SetMax({r.sequence : r \in rows})) + 1

NextRowid(rows, high_water) ==
  Max(high_water, IF rows = {} THEN 0 ELSE SetMax({r.sequence : r \in rows})) + 1

QueuedChunk(chunk, seq, t) ==
  [sequence |-> seq,
   event_id |-> chunk.event_id,
   chunk_index |-> chunk.chunk_index,
   chunk_count |-> chunk.chunk_count,
   compression |-> chunk.compression,
   payload |-> chunk.payload,
   chunk_hash |-> chunk.chunk_hash,
   event_hash |-> chunk.event_hash,
   created_at |-> t]

\* the INSERT loop of enqueue: the rows after it, the rows it returns, and
\* the high-water mark
RECURSIVE InsertLoop(_, _, _, _, _)
InsertLoop(chunks, i, rows, high_water, t) ==
  IF i > Len(chunks) THEN [rows |-> rows, queued |-> << >>, high_water |-> high_water]
  ELSE LET seq == NextRowid(rows, high_water)
           row == QueuedChunk(chunks[i], seq, t)
           rest == InsertLoop(chunks, i + 1, rows \cup {row}, seq, t)
       IN [rest EXCEPT !.queued = <<row>> \o rest.queued]

\* a prune that spares the rows of the newest event still in the queue
prune_locked_keep_newest(rows, t, retention_seconds) ==
  {r \in rows : \/ ~(r.created_at < t - retention_seconds)
                \/ r.event_id = SetMax({q.event_id : q \in
                                         {p \in rows : p.created_at < t}
                                         \cup {r}})}

prune_locked(rows, t, retention_seconds) ==
  {r \in rows : ~(r.created_at < t - retention_seconds)}

enqueue(chunks, rows, high_water, t, retention_seconds) ==
  LET ins == InsertLoop(chunks, 1, rows, high_water, t)
  IN [ins EXCEPT !.rows = prune_locked(ins.rows, t, retention_seconds)]

payload_size(row) == Len(row.payload)

RowsAfter(rows, since_sequence, limit) ==
  LET seqs == SortedSeq({s \in {r.sequence : r \in rows} : s > since_sequence})
      n == Min(Len(seqs), IF limit < 0 THEN Len(seqs) ELSE limit)
  IN [i \in 1..n |-> CHOOSE r \in rows : r.sequence = seqs[i]]

\* a window that lets a row in only if it fits
limit_ok_strict(payload_bytes, total_bytes, window, max_bytes) ==
  total_bytes + payload_bytes <= max_bytes

\* limit_ok in the loop of peek_window: the first row always fits
limit_ok(payload_bytes, total_bytes, window, max_bytes) ==
  IF payload_bytes > max_bytes /\ window = << >>
  THEN TRUE
  ELSE total_bytes + payload_bytes <= max_bytes

\* a loop that goes on to later rows past a row that does not fit
RECURSIVE PeekLoopSkipping(_, _, _, _, _, _)
PeekLoopSkipping(rows, i, window, total_bytes, max_chunks, max_bytes) ==
  IF i > Len(rows) THEN window
  ELSE LET payload_bytes == payload_size(rows[i])
       IN IF Len(window) >= max_chunks THEN window
          ELSE IF ~limit_ok(payload_bytes, total_bytes, window, max_bytes)
          THEN PeekLoopSkipping(rows, i + 1, window, total_bytes,
                                max_chunks, max_bytes)
          ELSE PeekLoopSkipping(rows, i + 1, Append(window, rows[i]),
                                total_bytes + payload_bytes, max_chunks,
                                max_bytes)

RECURSIVE PeekLoop(_, _, _, _, _, _)
PeekLoop(rows, i, window, total_bytes, max_chunks, max_bytes) ==
  IF i > Len(rows) THEN window
  ELSE LET payload_bytes == payload_size(rows[i])
       IN IF Len(window) >= max_chunks
             \/ ~limit_ok(payload_bytes, total_bytes, window, max_bytes)
          THEN window
          ELSE PeekLoop(rows, i + 1, Append(window, rows[i]),
                        total_bytes + payload_bytes, max_chunks, max_bytes)

peek_window(rows, since_sequence, max_chunks, max_bytes) ==
  PeekLoop(RowsAfter(rows, since_sequence, max_chunks * 2), 1, << >>, 0,
           max_chunks, max_bytes)

delete_sequences(rows, seq_list) ==
  {r \in rows : r.sequence \notin Range(seq_list)}

queue_depth(rows) == Cardinality(rows)

----------------------------------------------------------------------------
(* sensor/dispatch.py *)

SensorId == "s1"

\* a _track_window that adds to the window's set and leaves _in_flight
track_window_set_only(wins, inflight, window_id, sequence) ==
  [windows |-> PutKey(wins, window_id,
                      (IF window_id \in DOMAIN wins THEN wins[window_id] ELSE {})
                        \cup {sequence}),
   in_flight |-> inflight]

track_window(wins, inflight, window_id, sequence) ==
  [windows |-> PutKey(wins, window_id,
                      (IF window_id \in DOMAIN wins THEN wins[window_id] ELSE {})
                        \cup {sequence}),
   in_flight |-> PutKey(inflight, sequence, window_id)]

\* a release that forgets the in_flight entry and leaves the window's set
release_sequence_in_flight_only(wins, inflight, sequence) ==
  [windows |-> wins, in_flight |-> DropKey(inflight, sequence)]

release_sequence(wins, inflight, sequence) ==
  IF sequence \notin DOMAIN inflight
  THEN [windows |-> wins, in_flight |-> inflight]
  ELSE LET window_id == inflight[sequence]
           popped == DropKey(inflight, sequence)
       IN IF window_id = "" \/ window_id \notin DOMAIN wins
          THEN [windows |-> wins, in_flight |-> popped]
          ELSE LET left == wins[window_id] \ {sequence}
               IN [windows |-> IF left = {} THEN DropKey(wins, window_id)
                               ELSE [wins EXCEPT ![window_id] = left],
                   in_flight |-> popped]

to_data_chunk(record, sensor_id) ==
  [sensor_id |-> sensor_id,
   event_id |-> record.event_id,
   sequence |-> record.sequence,
   chunk_index |-> record.chunk_index,
   chunk_count |-> record.chunk_count,
   compression |-> record.compression,
   payload |-> record.payload,
   chunk_sha256 |-> record.chunk_hash,
   event_sha256 |-> record.event_hash,
   attributes |-> EmptyMap]

\* as the loop of build_chunks, without the skip of the rows that are in
\* flight under another window
RECURSIVE BuildLoopNoSkip(_, _, _, _, _, _)
BuildLoopNoSkip(records, i, request, wins, inflight, to_send) ==
  IF i > Len(records)
  THEN [to_send |-> to_send, windows |-> wins, in_flight |-> inflight]
  ELSE LET record == records[i]
       IN IF request.max_in_flight > 0
             /\ Cardinality(DOMAIN inflight) >= request.max_in_flight
          THEN [to_send |-> to_send, windows |-> wins, in_flight |-> inflight]
          ELSE LET data == to_data_chunk(record, SensorId)
                   chunk == [data EXCEPT !.attributes =
                               PutKey(data.attributes, "window_id",
                                      request.window_id)]
                   tracked == track_window(wins, inflight, request.window_id,
                                           record.sequence)
               IN BuildLoopNoSkip(records, i + 1, request, tracked.windows,
                                  tracked.in_flight, Append(to_send, chunk))

\* as the loop of build_chunks, without the max_in_flight check
RECURSIVE BuildLoopNoLimit(_, _, _, _, _, _)
BuildLoopNoLimit(records, i, request, wins, inflight, to_send) ==
  IF i > Len(records)
  THEN [to_send |-> to_send, windows |-> wins, in_flight |-> inflight]
  ELSE LET record == records[i]
       IN IF record.sequence \in DOMAIN inflight
             /\ inflight[record.sequence] # request.window_id
          THEN BuildLoopNoLimit(records, i + 1, request, wins, inflight,
                                to_send)
          ELSE LET data == to_data_chunk(record, SensorId)
                   chunk == [data EXCEPT !.attributes =
                               PutKey(data.attributes, "window_id",
                                      request.window_id)]
                   tracked == track_window(wins, inflight, request.window_id,
                                           record.sequence)
               IN BuildLoopNoLimit(records, i + 1, request, tracked.windows,
                                   tracked.in_flight, Append(to_send, chunk))

RECURSIVE BuildLoop(_, _, _, _, _, _)
BuildLoop(records, i, request, wins, inflight, to_send) ==
  IF i > Len(records)
  THEN [to_send |-> to_send, windows |-> wins, in_flight |-> inflight]
  ELSE LET record == records[i]
       IN IF record.sequence \in DOMAIN inflight
             /\ inflight[record.sequence] # request.window_id
          THEN BuildLoop(records, i + 1, request, wins, inflight, to_send)
          ELSE IF request.max_in_flight > 0
                  /\ Cardinality(DOMAIN inflight) >= request.max_in_flight
          THEN [to_send |-> to_send, windows |-> wins, in_flight |-> inflight]
          ELSE LET data == to_data_chunk(record, SensorId)
                   chunk == [data EXCEPT !.attributes =
                               PutKey(data.attributes, "window_id",
                                      request.window_id)]
                   tracked == track_window(wins, inflight, request.window_id,
                                           record.sequence)
               IN BuildLoop(records, i + 1, request, tracked.windows,
                            tracked.in_flight, Append(to_send, chunk))

build_chunks(rows, wins, inflight, request) ==
  BuildLoop(peek_window(rows, request.since_sequence, request.max_chunks,
                        request.max_bytes),
            1, request, wins, inflight, << >>)

RECURSIVE ReleaseLoop(_, _, _, _)
ReleaseLoop(committed, i, wins, inflight) ==
  IF i > Len(committed) THEN [windows |-> wins, in_flight |-> inflight]
  ELSE LET rel == release_sequence(wins, inflight, committed[i])
       IN ReleaseLoop(committed, i + 1, rel.windows, rel.in_flight)

\* as handle_ack, deleting only the rows of sequences that are in flight
handle_ack_in_flight_only(rows, wins, inflight, lastack, ack) ==
  LET committed_sequences == SortedSeq(Range(ack.committed_sequences))
      wins1 == IF ack.reset_window THEN DropKey(wins, ack.window_id) ELSE wins
      rows1 == {r \in rows : ~(r.sequence \in Range(committed_sequences)
                                 /\ r.sequence \in DOMAIN inflight)}
      rel == ReleaseLoop(committed_sequences, 1, wins1, inflight)
  IN [queue |-> rows1,
      windows |-> rel.windows,
      in_flight |-> rel.in_flight,
      last_ack_sequence |->
        IF committed_sequences # << >>
        THEN Max(lastack, committed_sequences[Len(committed_sequences)])
        ELSE lastack,
      deleted |-> Cardinality(rows) - Cardinality(rows1),
      remaining |-> queue_depth(rows1)]

\* as handle_ack, with reset_window replacing the window record by an empty
\* one instead of dropping it
handle_ack_reset_reopens(rows, wins, inflight, lastack, ack) ==
  LET committed_sequences == SortedSeq(Range(ack.committed_sequences))
      wins1 == IF ack.reset_window THEN PutKey(wins, ack.window_id, {}) ELSE wins
      rows1 == delete_sequences(rows, committed_sequences)
      rel == ReleaseLoop(committed_sequences, 1, wins1, inflight)
  IN [queue |-> rows1,
      windows |-> rel.windows,
      in_flight |-> rel.in_flight,
      last_ack_sequence |->
        IF committed_sequences # << >>
        THEN Max(lastack, committed_sequences[Len(committed_sequences)])
        ELSE lastack,
      deleted |-> Cardinality(rows) - Cardinality(rows1),
      remaining |-> queue_depth(rows1)]

\* as handle_ack, with reset_window also forgetting the in_flight entries
\* of the window it drops
handle_ack_reset_releases(rows, wins, inflight, lastack, ack) ==
  LET committed_sequences == SortedSeq(Range(ack.committed_sequences))
      wins1 == IF ack.reset_window THEN DropKey(wins, ack.window_id) ELSE wins
      inflight1 == IF ack.reset_window
                   THEN [q \in {q \in DOMAIN inflight :
                                  inflight[q] # ack.window_id} |-> inflight[q]]
                   ELSE inflight
      rows1 == delete_sequences(rows, committed_sequences)
      rel == ReleaseLoop(committed_sequences, 1, wins1, inflight1)
  IN [queue |-> rows1,
      windows |-> rel.windows,
      in_flight |-> rel.in_flight,
      last_ack_sequence |->
        IF committed_sequences # << >>
        THEN Max(lastack, committed_sequences[Len(committed_sequences)])
        ELSE lastack,
      deleted |-> Cardinality(rows) - Cardinality(rows1),
      remaining |-> queue_depth(rows1)]

\* as handle_ack, taking the last sequence of the list as it was sent
handle_ack_last_as_sent(rows, wins, inflight, lastack, ack) ==
  LET committed_sequences == SortedSeq(Range(ack.committed_sequences))
      wins1 == IF ack.reset_window THEN DropKey(wins, ack.window_id) ELSE wins
      rows1 == delete_sequences(rows, committed_sequences)
      rel == ReleaseLoop(committed_sequences, 1, wins1, inflight)
  IN [queue |-> rows1,
      windows |-> rel.windows,
      in_flight |-> rel.in_flight,
      last_ack_sequence |->
        IF ack.committed_sequences # << >>
        THEN Max(lastack,
                 ack.committed_sequences[Len(ack.committed_sequences)])
        ELSE lastack,
      deleted |-> Cardinality(rows) - Cardinality(rows1),
      remaining |-> queue_depth(rows1)]

handle_ack(rows, wins, inflight, lastack, ack) ==
  LET committed_sequences == SortedSeq(Range(ack.committed_sequences))
      wins1 == IF ack.reset_window THEN DropKey(wins, ack.window_id) ELSE wins
      rows1 == delete_sequences(rows, committed_sequences)
      rel == ReleaseLoop(committed_sequences, 1, wins1, inflight)
  IN [queue |-> rows1,
      windows |-> rel.windows,
      in_flight |-> rel.in_flight,
      last_ack_sequence |->
        IF committed_sequences # << >>
        THEN Max(lastack, committed_sequences[Len(committed_sequences)])
        ELSE lastack,
      deleted |-> Cardinality(rows) - Cardinality(rows1),
      remaining |-> queue_depth(rows1)]

----------------------------------------------------------------------------
(* server/store.py *)

\* completed_at IS NULL
NULL == -1

ChunkKey(chunk) == <<chunk.sensor_id, chunk.sequence>>

EventKey(chunk) == <<chunk.sensor_id, chunk.event_id>>

\* a row of table chunks; the columns that are written and never read
\* (attributes, created_at and the timestamps of table events) are left out
ChunkRow(chunk) ==
  [sensor_id |-> chunk.sensor_id,
   sequence |-> chunk.sequence,
   event_id |-> chunk.event_id,
   chunk_index |-> chunk.chunk_index,
   chunk_count |-> chunk.chunk_count,
   compression |-> chunk.compression,
   payload |-> chunk.payload,
   chunk_sha256 |-> chunk.chunk_sha256,
   event_sha256 |-> chunk.event_sha256]

HasChunk(cks, sensor_id, sequence) ==
  \E r \in cks : r.sensor_id = sensor_id /\ r.sequence = sequence

event_complete(evs, key) ==
  key \in DOMAIN evs /\ evs[key].completed_at # NULL

\* the rows of one event in descending chunk_index order
RECURSIVE OrderByChunkIndexDesc(_)
OrderByChunkIndexDesc(rows) ==
  IF rows = {} THEN << >>
  ELSE LET first == CHOOSE r \in rows :
                      \A o \in rows :
                        \/ r.chunk_index > o.chunk_index
                        \/ (r.chunk_index = o.chunk_index /\ r.sequence <= o.sequence)
       IN <<first>> \o OrderByChunkIndexDesc(rows \ {first})

\* the rows of one event in ascending chunk_index order
RECURSIVE OrderByChunkIndex(_)
OrderByChunkIndex(rows) ==
  IF rows = {} THEN << >>
  ELSE LET first == CHOOSE r \in rows :
                      \A o \in rows :
                        \/ r.chunk_index < o.chunk_index
                        \/ (r.chunk_index = o.chunk_index /\ r.sequence <= o.sequence)
       IN <<first>> \o OrderByChunkIndex(rows \ {first})

RECURSIVE JoinParts(_, _)
JoinParts(rows, i) ==
  IF i > Len(rows) THEN << >>
  ELSE GzipDecompress(rows[i].payload) \o JoinParts(rows, i + 1)

assemble_event(cks, sensor_id, event_id) ==
  JoinParts(OrderByChunkIndex({r \in cks : r.sensor_id = sensor_id
                                            /\ r.event_id = event_id}), 1)

\* the two DELETE statements of _prune_locked, one after the other
store_prune_locked(cks, evs, t, retention_seconds) ==
  LET cutoff == t - retention_seconds
      expired(e) == e.completed_at # NULL /\ e.completed_at < cutoff
      evs1 == [k \in {k \in DOMAIN evs : ~expired(evs[k])} |-> evs[k]]
      doomed == {c.sequence : c \in
                   {c \in cks : /\ <<c.sensor_id, c.event_id>> \in DOMAIN evs1
                                /\ expired(evs1[<<c.sensor_id, c.event_id>>])}}
  IN [chunks |-> {c \in cks : c.sequence \notin doomed}, events |-> evs1]

IngestResult(chunk, stored, duplicate, complete, assembled) ==
  [stored |-> stored,
   duplicate |-> duplicate,
   sequence |-> chunk.sequence,
   event_id |-> chunk.event_id,
   sensor_id |-> chunk.sensor_id,
   event_complete |-> complete,
   assembled_payload |-> assembled]

\* assembled_payload is None
None == <<NULL>>

\* SnapshotCache._snapshots has no entry for the sensor
NoSnapshot == [payload |-> None, event_id |-> NULL]

NoResult == [stored |-> FALSE]

Raised(error, cks, evs) ==
  [error |-> error, chunks |-> cks, events |-> evs, result |-> NoResult]

\* as ChunkHashMatches, trusting the digest the chunk carries
ChunkHashUnchecked(chunk) == chunk.chunk_sha256 = chunk.chunk_sha256

\* hashlib.sha256(payload_bytes).digest() != chunk.chunk_sha256
ChunkHashMatches(chunk) == Sha256(chunk.payload) = chunk.chunk_sha256

\* as IsDuplicate, looking the chunk up by its event instead of its sequence
IsDuplicateByEvent(cks, chunk) ==
  \E r \in cks : r.sensor_id = chunk.sensor_id /\ r.event_id = chunk.event_id

\* SELECT 1 FROM chunks WHERE sensor_id = ? AND sequence = ?
IsDuplicate(cks, chunk) == HasChunk(cks, chunk.sensor_id, chunk.sequence)

\* as DuplicateOutcome, counting the replay as one more received chunk
DuplicateOutcomeCounted(chunk, cks, evs) ==
  LET key == EventKey(chunk)
      evs1 == IF key \in DOMAIN evs
              THEN [evs EXCEPT ![key].received_chunks = @ + 1] ELSE evs
  IN [error |-> "", chunks |-> cks, events |-> evs1,
      result |-> IngestResult(chunk, FALSE, TRUE,
                              event_complete(evs1, key), None)]

\* the early return of ingest for a (sensor_id, sequence) already stored
DuplicateOutcome(chunk, cks, evs) ==
  [error |-> "", chunks |-> cks, events |-> evs,
   result |-> IngestResult(chunk, FALSE, TRUE,
                           event_complete(evs, EventKey(chunk)), None)]

\* ChunkStore.ingest.  The connection is opened with isolation_level=None,
\* so every statement commits on its own: what ran before a raise stays.
store_ingest(chunk, cks, evs, t, retention_seconds) ==
  IF chunk.compression # "gzip"
  THEN Raised("unsupported compression", cks, evs)
  ELSE IF ~ChunkHashMatches(chunk)
  THEN Raised("chunk hash mismatch", cks, evs)
  ELSE IF IsDuplicate(cks, chunk)
  THEN DuplicateOutcome(chunk, cks, evs)
  ELSE
    LET key == EventKey(chunk)
        cks1 == cks \cup {ChunkRow(chunk)}
    IN IF key \in DOMAIN evs /\ evs[key].event_sha256 # chunk.event_sha256
       THEN Raised("event hash mismatch", cks1, evs)
       ELSE IF key \in DOMAIN evs /\ evs[key].chunk_count # chunk.chunk_count
       THEN Raised("chunk count mismatch", cks1, evs)
       ELSE
         LET received == IF key \in DOMAIN evs
                         THEN evs[key].received_chunks + 1 ELSE 1
             evs1 == IF key \in DOMAIN evs
                     THEN [evs EXCEPT ![key].received_chunks = received]
                     ELSE PutKey(evs, key,
                                 [chunk_count |-> chunk.chunk_count,
                                  event_sha256 |-> chunk.event_sha256,
                                  received_chunks |-> received,
                                  completed_at |-> NULL])
             complete == received >= chunk.chunk_count
             evs2 == IF complete
                     THEN [evs1 EXCEPT ![key].completed_at = t]
                     ELSE evs1
             assembled == IF complete
                          THEN assemble_event(cks1, chunk.sensor_id, chunk.event_id)
                          ELSE None
         IN IF complete /\ Sha256(assembled) # chunk.event_sha256
            THEN Raised("event payload hash mismatch", cks1, evs2)
            ELSE LET kept == store_prune_locked(cks1, evs2, t, retention_seconds)
                 IN [error |-> "", chunks |-> kept.chunks,
                     events |-> kept.events,
                     result |-> IngestResult(chunk, TRUE, FALSE, complete,
                                             assembled)]

----------------------------------------------------------------------------
(* server/offsets.py *)

\* as offsets_update, storing whatever it is given
offsets_update_last_write(offs, sensor_id, sequence) ==
  [offs EXCEPT ![sensor_id] = sequence]

offsets_update(offs, sensor_id, sequence) ==
  IF sequence > offs[sensor_id] THEN [offs EXCEPT ![sensor_id] = sequence]
  ELSE offs

offsets_get(offs, sensor_id) == offs[sensor_id]

----------------------------------------------------------------------------
(* server/http_ingest.py, server/control.py, server/scheduler.py,
   server/main.py, server/snapshot_cache.py *)

Sensors == {"s1", "s2"}

\* auth.sensors of the server configuration
SensorTokens == [s \in Sensors |-> IF s = "s1" THEN "tok1" ELSE "tok2"]

\* common/auth.py extract_bearer; a header is the sequence of its parts
extract_bearer(header) ==
  IF header = << >> THEN << >>
  ELSE IF Head(header) = "Bearer " THEN Tail(header)
  ELSE header

\* common/auth.py constant_time_compare
constant_time_compare(expected, received) == expected = received

\* a validation that accepts the token of any configured sensor
validate_sensor_any_token(authorization, sensor_id) ==
  /\ sensor_id \in DOMAIN SensorTokens
  /\ \E s \in DOMAIN SensorTokens :
       constant_time_compare(<<SensorTokens[s]>>,
                             extract_bearer(authorization))

\* ChunkIngestService._validate_sensor: TRUE when it does not raise; a
\* sensor without a configured token has expected None, which never compares
validate_sensor(authorization, sensor_id) ==
  /\ sensor_id \in DOMAIN SensorTokens
  /\ constant_time_compare(<<SensorTokens[sensor_id]>>,
                           extract_bearer(authorization))

\* ChunkIngestService.ingest up to the return of store.ingest, with the
\* status do_POST answers when it raises
http_ingest(chunk, authorization, cks, evs, t) ==
  IF ~validate_sensor(authorization, chunk.sensor_id)
  THEN [status |-> 401, chunks |-> cks, events |-> evs, result |-> NoResult]
  ELSE LET out == store_ingest(chunk, cks, evs, t, StoreRetention)
       IN [status |-> IF out.error = "" THEN 200 ELSE 400,
           chunks |-> out.chunks, events |-> out.events, result |-> out.result]

\* bytes and Optional[bytes] in a condition
Truthy(bytes) == bytes # None /\ bytes # << >>

AckTask(chunk) ==
  [kind |-> "send_ack",
   sensor_id |-> chunk.sensor_id,
   sequence |-> chunk.sequence,
   window_id |-> IF "window_id" \in DOMAIN chunk.attributes
                 THEN chunk.attributes["window_id"] ELSE "default"]

SnapshotTask(result) ==
  [kind |-> "on_snapshot",
   sensor_id |-> result.sensor_id,
   result |-> result]

\* an ingest that acks only the chunks it stored
dispatched_stored_only(chunk, result) ==
  (IF result.duplicate THEN << >> ELSE <<AckTask(chunk)>>)
    \o (IF result.event_complete /\ Truthy(result.assembled_payload)
        THEN <<SnapshotTask(result)>> ELSE << >>)

\* what ingest hands to the event loop after store.ingest returned
dispatched(chunk, result) ==
  <<AckTask(chunk)>>
    \o (IF result.event_complete /\ Truthy(result.assembled_payload)
        THEN <<SnapshotTask(result)>> ELSE << >>)

----------------------------------------------------------------------------
(* server/snapshot_cache.py, server/stream.py *)

\* as update_from_ingest, caching the payload of every complete event
update_from_ingest_any_payload(cache, ingest) ==
  IF ~ingest.event_complete
  THEN [snapshots |-> cache, returned |-> NoSnapshot]
  ELSE LET snapshot == [event_id |-> ingest.event_id,
                        payload |-> ingest.assembled_payload]
       IN [snapshots |-> [cache EXCEPT ![ingest.sensor_id] = snapshot],
           returned |-> snapshot]

\* SnapshotCache.update_from_ingest: the cache after the call and what the
\* call returns, NoSnapshot for None
update_from_ingest(cache, ingest) ==
  IF ~ingest.event_complete \/ ~Truthy(ingest.assembled_payload)
  THEN [snapshots |-> cache, returned |-> NoSnapshot]
  ELSE LET snapshot == [event_id |-> ingest.event_id,
                        payload |-> ingest.assembled_payload]
       IN [snapshots |-> [cache EXCEPT ![ingest.sensor_id] = snapshot],
           returned |-> snapshot]

\* SnapshotCache.all
cache_all(cache) ==
  [s \in {s \in DOMAIN cache : cache[s] # NoSnapshot} |-> cache[s]]

\* the observers that connect to the streamer
Observers == {"o1", "o2"}

\* the coroutines of handle_snapshot that publish at the same time
Broadcasts == {"b1"}

Coroutines == Observers \cup Broadcasts

\* stream.token of the server configuration
StreamToken == "tokU"

\* no message to publish
NoMessage == [type |-> "none", snapshots |-> EmptyMap]

\* a coroutine that does not run
NoCoroutine ==
  [pc |-> "none", authorization |-> << >>, message |-> NoMessage,
   targets |-> {}, attempts |-> << >>, dead |-> {}]

\* the check at the head of SnapshotStreamer._handler
observer_authorized(authorization) ==
  \/ StreamToken = ""
  \/ constant_time_compare(<<StreamToken>>, extract_bearer(authorization))

\* the message of broadcast
SnapshotMessage(sensor_id, snapshot) ==
  [type |-> "snapshot", snapshots |-> PutKey(EmptyMap, sensor_id, snapshot)]

\* the message of broadcast_all
BatchMessage(cache) ==
  [type |-> "snapshot_batch", snapshots |-> cache_all(cache)]

\* where a coroutine goes on when _publish returns: a handler reads its
\* websocket, a broadcast is over
AfterPublish(c, task) ==
  IF c \in Observers
  THEN [NoCoroutine EXCEPT !.pc = "reading",
                           !.authorization = task.authorization]
  ELSE NoCoroutine

\* as publish_remaining, leaving the loop at the first send that raises
publish_remaining_until_error(task) ==
  IF task.dead # {} THEN {} ELSE task.targets \ Range(task.attempts)

\* the clients the loop of _publish has still to send to
publish_remaining(task) == task.targets \ Range(task.attempts)

\* _publish from the moment the coroutine holds the lock (it is the head of
\* lock) to its first send, or to its return when no client is registered
publish_locked(c, message, cls, lock, cors) ==
  IF cls = {}
  THEN [clients |-> cls, lock |-> Tail(lock),
        coroutines |-> [cors EXCEPT ![c] = AfterPublish(c, @)]]
  ELSE [clients |-> cls, lock |-> lock,
        coroutines |-> [cors EXCEPT ![c].pc = "publishing",
                                    ![c].message = message,
                                    ![c].targets = cls,
                                    ![c].attempts = << >>,
                                    ![c].dead = {}]]

\* _publish(message) called by coroutine c, up to the point where c first
\* waits.  asyncio.Lock gives the lock at once only when nobody holds it
\* and nobody waits for it; otherwise the caller queues.
publish(c, message, cls, lock, cors) ==
  IF lock # << >>
  THEN [clients |-> cls, lock |-> Append(lock, c),
        coroutines |-> [cors EXCEPT ![c].pc = "wait_publish",
                                    ![c].message = message]]
  ELSE publish_locked(c, message, cls, <<c>>, cors)

\* _handler from the moment it holds the lock to add its websocket: the add,
\* the release and broadcast_all up to its first wait
handler_add(o, cache, cls, lock, cors) ==
  publish(o, BatchMessage(cache), cls \cup {o}, Tail(lock), cors)

\* handle_snapshot of server/main.py run by broadcast coroutine b:
\* update_from_ingest, and broadcast when it returned a snapshot
handle_snapshot(b, ingest, cache, cls, lock, cors) ==
  LET res == update_from_ingest(cache, ingest)
      out == IF res.returned # NoSnapshot
             THEN publish(b, SnapshotMessage(ingest.sensor_id, res.returned),
                          cls, lock, cors)
             ELSE [clients |-> cls, lock |-> lock, coroutines |-> cors]
  IN [snapshots |-> res.snapshots, returned |-> res.returned,
      clients |-> out.clients, lock |-> out.lock,
      coroutines |-> out.coroutines]

\* a broadcast coroutine that is not in use
FreeBroadcast(cors) == CHOOSE b \in Broadcasts : cors[b].pc = "none"

----------------------------------------------------------------------------

AckEnvelope(task) ==
  [body_type |-> "chunk_ack",
   body |-> [window_id |-> task.window_id,
             committed_sequences |-> <<task.sequence>>,
             reset_window |-> FALSE]]

\* f"{sensor_id}-{int(time.time() * 1000)}"
MintedWindowIds ==
  [s \in Sensors |->
     IF s = "s1" THEN <<"s1-0", "s1-1", "s1-2", "s1-3", "s1-4", "s1-5">>
     ELSE <<"s2-0", "s2-1", "s2-2", "s2-3", "s2-4", "s2-5">>]

MintWindowId(sensor_id, t) == MintedWindowIds[sensor_id][t + 1]

RequestEnvelope(sensor_id, since, t) ==
  [body_type |-> "chunk_request",
   body |-> [since_sequence |-> since,
             max_chunks |-> SchedMaxChunks,
             max_bytes |-> SchedMaxBytes,
             window_id |-> MintWindowId(sensor_id, t),
             max_in_flight |-> SchedMaxInFlight]]

\* a handler that closes a connection with a wrong token and serves it
\* all the same
control_handler_no_return(sensor_id, authorization) ==
  IF sensor_id = ""
  THEN [close_code |-> 1002, registered |-> FALSE, serving |-> FALSE]
  ELSE IF sensor_id \notin DOMAIN SensorTokens
  THEN [close_code |-> 1008, registered |-> FALSE, serving |-> FALSE]
  ELSE IF ~constant_time_compare(<<SensorTokens[sensor_id]>>,
                                 extract_bearer(authorization))
  THEN [close_code |-> 1008, registered |-> TRUE, serving |-> TRUE]
  ELSE [close_code |-> NULL, registered |-> TRUE, serving |-> TRUE]

\* control_server._handler up to its message loop: the close code it sends,
\* whether it registers a session, whether it goes on to serve messages
control_handler(sensor_id, authorization) ==
  IF sensor_id = ""
  THEN [close_code |-> 1002, registered |-> FALSE, serving |-> FALSE]
  ELSE IF sensor_id \notin DOMAIN SensorTokens
  THEN [close_code |-> 1008, registered |-> FALSE, serving |-> FALSE]
  ELSE IF ~constant_time_compare(<<SensorTokens[sensor_id]>>,
                                 extract_bearer(authorization))
  THEN [close_code |-> 1008, registered |-> FALSE, serving |-> FALSE]
  ELSE [close_code |-> NULL, registered |-> TRUE, serving |-> TRUE]

\* a manager that keeps the envelope for a sensor that is not connected
send_parked(sess, out, sensor_id, envelope) ==
  [returned |-> sensor_id \in sess,
   control_out |-> [out EXCEPT ![sensor_id] = Append(@, envelope)]]

\* ControlManager.send_chunk_request and send_ack: _get_session, then the
\* envelope goes out on the session's websocket
send_to_session(sess, out, sensor_id, envelope) ==
  IF sensor_id \notin sess
  THEN [returned |-> FALSE, control_out |-> out]
  ELSE [returned |-> TRUE,
        control_out |-> [out EXCEPT ![sensor_id] = Append(@, envelope)]]

send_ack(sess, out, task) ==
  send_to_session(sess, out, task.sensor_id, AckEnvelope(task))

\* RequestScheduler.request_sensor
request_sensor(sess, out, offs, sensor_id, t) ==
  send_to_session(sess, out, sensor_id,
                  RequestEnvelope(sensor_id, offsets_get(offs, sensor_id), t))

----------------------------------------------------------------------------
(* common/backoff.py and the retry loop of sensor/agent.py *)

\* ExponentialBackoff.reset
backoff_reset == 0

\* as next_interval, starting over at base every time
next_interval_base(current) == BackoffBase

\* ExponentialBackoff.next_interval: the new _current.  The interval slept
\* is that value with a random jitter of a tenth of it either way.
next_interval(current) ==
  IF current = 0 THEN BackoffBase ELSE Min(current * BackoffFactor, BackoffMax)

\* as after_send_failure, going on to the next chunk and coming back to the
\* failed one after it
after_send_failure_skip(pending) == Tail(pending) \o <<Head(pending)>>

\* as after_send_failure, giving the chunk up
after_send_failure_drop(pending) == Tail(pending)

\* _send_chunk_with_backoff: the chunks still to send once an attempt failed
after_send_failure(pending) == pending

----------------------------------------------------------------------------
(* Inputs of the sensor-side operations *)

Payloads == UNION {[1..n -> {7}] : n \in 0..MaxPayloadLen}

\* one payload per chunk count
DispPayloads == {p \in Payloads : Len(p) \in {1, MaxPayloadLen}}

WindowIds == {"w1", "w2"}

Sequences == 1..MaxEnqueued

AckSequences == 1..MaxDispEnqueued

Requests ==
  [since_sequence : 0..1, max_chunks : {1, 2}, max_bytes : {1, 5},
   window_id : WindowIds, max_in_flight : {0, 1}]

Acks ==
  [window_id : WindowIds,
   committed_sequences : UNION {[1..n -> AckSequences] : n \in 0..2},
   reset_window : BOOLEAN]

\* the arguments of peek_window
PeekSince == 0..1

PeekMaxChunks == 0..2

PeekMaxBytes == {1, 4, 5}

NoArg == [none |-> TRUE]

----------------------------------------------------------------------------
(* Inputs of the server-side operations *)

\* the DataChunk a sensor posts for a chunk of chunk_payload
WireChunk(chunk, sensor_id, sequence) ==
  to_data_chunk(QueuedChunk(chunk, sequence, 0), sensor_id)

\* the payloads of the events of s1
HonestPayload(event_id) == IF event_id = 1 THEN <<7, 8, 9>> ELSE <<7>>

\* a two-chunk event and a one-chunk event of s1
HonestChunks ==
  LET big == chunk_payload(HonestPayload(1), 1, ChunkSize)
      small == chunk_payload(HonestPayload(2), 2, ChunkSize)
  IN {WireChunk(big[1], "s1", 1), WireChunk(big[2], "s1", 2),
      WireChunk(small[1], "s1", 3)}

\* a chunk as posted, changed in one field after it was built
Tampered(chunk, how) ==
  CASE how = "payload" -> [chunk EXCEPT !.payload = Append(@, 9)]
    [] how = "event_sha256" -> [chunk EXCEPT !.event_sha256 = Sha256(<<9>>)]
    [] how = "chunk_count" -> [chunk EXCEPT !.chunk_count = 3 - @]
    [] how = "compression" -> [chunk EXCEPT !.compression = "none"]
    [] OTHER -> chunk

Tamperings == {"payload", "event_sha256", "chunk_count", "compression"}

\* the chunk of the one-chunk event posted once more under another sequence
ResentChunks ==
  {[c EXCEPT !.sequence = 2] : c \in {c \in HonestChunks : c.sequence = 3}}

\* a one-chunk event of s2 under the event id and the sequence of a chunk
\* of s1
OtherSensorChunks ==
  {WireChunk(chunk_payload(<<5>>, 1, ChunkSize)[1], "s2", 1)}

\* the one-chunk event posted under a sensor id the server has no token for
UnknownSensorChunks ==
  {[c EXCEPT !.sensor_id = "s9"] : c \in {c \in HonestChunks : c.sequence = 3}}

\* the one-chunk event as the dispatcher posts it for a request of window w1
WindowedChunks ==
  {[c EXCEPT !.attributes = PutKey(@, "window_id", "w1")] :
     c \in {c \in HonestChunks : c.sequence = 3}}

PostedChunks ==
  HonestChunks
    \cup WindowedChunks
    \cup OtherSensorChunks
    \cup UnknownSensorChunks
    \cup {Tampered(c, how) :
            c \in {c \in HonestChunks : c.sequence = 2},
            how \in Tamperings}
    \cup ResentChunks

\* the worker threads that run ChunkStore.ingest at the same time
Workers == 1..MaxWorkers

\* the Authorization header of a POST; << >> when it is missing
PostHeaders == {<< >>, <<"Bearer ", "tok1">>, <<"Bearer ", "tok2">>}

\* the X-Sensor-ID header of a control connection; "" when it is missing
SensorIdHeaders == {"", "s1", "s2", "s9"}

\* its Authorization header; << >> when it is missing
AuthHeaders == {<< >>, <<"Bearer ", "tok1">>, <<"tok2">>, <<"Basic ", "tok2">>}

----------------------------------------------------------------------------
(* State *)

queueVars == <<queue, sqlite_sequence, next_event, returned, pruned>>

dispVars == <<windows, in_flight, last_ack_sequence, outstanding>>

stopVars == <<stop_event, heartbeat_task>>

backoffVars == <<send_backoff, recv_backoff>>

agentVars == <<pc, agent_chunks, backoffVars, failures, stopVars>>

storeVars == <<store_chunks, store_events, workers>>

snapshotVars == <<snapshot_cache, clients, stream_lock, coroutines, delivered>>

registryVars == <<control_sessions, handlers>>

\* what the server pushes over: the snapshot stream and the control
\* connections
pushVars == <<snapshotVars, registryVars>>

serverVars == <<storeVars, offsets, sessions, loop_tasks, control_out,
                pushVars, max_updated,
                 assembled_calls>>

vars == <<now, queueVars, dispVars, agentVars, serverVars, last>>

SensorInit ==
  /\ queue = {}
  /\ sqlite_sequence = 0
  /\ next_event = 0
  /\ returned = << >>
  /\ pruned = {}
  /\ windows = EmptyMap
  /\ in_flight = EmptyMap
  /\ last_ack_sequence = 0
  /\ outstanding = {}
  /\ pc = "handshake"
  /\ agent_chunks = << >>
  /\ send_backoff = 0
  /\ recv_backoff = 0
  /\ stop_event = FALSE
  /\ heartbeat_task = "running"
  /\ failures = 0

\* a worker thread of the ThreadingHTTPServer that serves no request
\* the control connections a sensor opens, one after the other
Connections == {"k1", "k2", "k3"}

\* _sessions has no entry for the sensor_id
NoSession == "none"

\* no _handler runs for the connection
NoHandler == [pc |-> "none", sensor_id |-> "", live |-> FALSE]

IdleWorker ==
  [pc |-> "idle", chunk |-> NoArg, has_row |-> FALSE, event_row |-> NoArg,
   received |-> 0, assembled |-> None, error |-> "", result |-> NoResult]

ServerInit ==
  /\ store_chunks = {}
  /\ store_events = EmptyMap
  /\ workers = [w \in Workers |-> IdleWorker]
  /\ offsets = [s \in Sensors |-> 0]
  /\ loop_tasks = << >>
  /\ control_out = [s \in Sensors |-> << >>]
  /\ snapshot_cache = [s \in Sensors |-> NoSnapshot]
  /\ clients = {}
  /\ stream_lock = << >>
  /\ coroutines = [c \in Coroutines |-> NoCoroutine]
  /\ delivered = [o \in Observers |-> << >>]
  /\ control_sessions = [s \in Sensors |-> NoSession]
  /\ handlers = [k \in Connections |-> NoHandler]
  /\ max_updated = [s \in Sensors |-> 0]
  /\ assembled_calls = EmptyMap

----------------------------------------------------------------------------
(* Sensor-side operations as actions *)

\* time.time() moves on
Tick(limit) ==
  /\ now < limit
  /\ now' = now + 1
  /\ last' = [op |-> "tick", arg |-> NoArg]
  /\ UNCHANGED <<queueVars, dispVars, agentVars, serverVars>>

\* a producer chunks a payload under a fresh event id and enqueues it
Enqueue(payload, cap) ==
  \E event_chunks \in {chunk_payload(payload, next_event + 1, ChunkSize)} :
  \E res \in {enqueue(event_chunks, queue, sqlite_sequence, now,
                      QueueRetention)} :
  LET seqs == [i \in 1..Len(res.queued) |-> res.queued[i].sequence]
  IN /\ next_event < MaxEvents
     /\ Len(returned) + Len(event_chunks) <= cap
     /\ next_event' = next_event + 1
     /\ queue' = res.rows
     /\ sqlite_sequence' = res.high_water
     /\ returned' = returned \o seqs
     /\ pruned' = pruned \cup (({r.sequence : r \in queue} \cup Range(seqs))
                                 \ {r.sequence : r \in res.rows})
     /\ last' = [op |-> "enqueue", arg |-> NoArg]
     /\ UNCHANGED <<now, dispVars, agentVars, serverVars>>

\* the history of build_chunks and handle_ack
HandedOut(pairs, request, to_send) ==
  pairs \cup {<<request.window_id, to_send[i].sequence>> :
                i \in 1..Len(to_send)}

Acked(pairs, ack) ==
  {p \in pairs : p[2] \notin Range(ack.committed_sequences)}

BuildChunks(request) ==
  \E res \in {build_chunks(queue, windows, in_flight, request)} :
     /\ windows' = res.windows
     /\ in_flight' = res.in_flight
     /\ outstanding' = HandedOut(outstanding, request, res.to_send)
     /\ last' = [op |-> "build_chunks",
                 arg |-> [request |-> request, to_send |-> res.to_send]]
     /\ UNCHANGED <<now, queueVars, last_ack_sequence, agentVars, serverVars>>

HandleAck(ack) ==
  \E res \in {handle_ack(queue, windows, in_flight, last_ack_sequence,
                        ack)} :
     /\ queue' = res.queue
     /\ windows' = res.windows
     /\ in_flight' = res.in_flight
     /\ last_ack_sequence' = res.last_ack_sequence
     /\ outstanding' = Acked(outstanding, ack)
     /\ last' = [op |-> "handle_ack",
                 arg |-> [ack |-> ack,
                          deleted |-> res.deleted > 0,
                          released |-> DOMAIN in_flight # DOMAIN res.in_flight]]
     /\ UNCHANGED <<now, sqlite_sequence, next_event, returned, pruned,
                    agentVars, serverVars>>

\* the sensor process ends and starts again on the same queue file:
\* DurableQueue.__init__, ChunkDispatcher.__init__, SensorAgent.__init__;
\* its control connection is gone and the server drops the session
RestartStep ==
  /\ windows' = EmptyMap
  /\ in_flight' = EmptyMap
  /\ last_ack_sequence' = 0
  /\ outstanding' = {}
  /\ pc' = "handshake"
  /\ agent_chunks' = << >>
  /\ send_backoff' = 0
  /\ recv_backoff' = 0
  /\ stop_event' = FALSE
  /\ heartbeat_task' = "running"
  /\ sessions' = sessions \ {SensorId}
  /\ control_out' = [control_out EXCEPT ![SensorId] = << >>]
  /\ last' = [op |-> "restart", arg |-> NoArg]
  /\ UNCHANGED <<now, queueVars, storeVars, offsets, loop_tasks,
                 pushVars, max_updated, assembled_calls>>

Restart ==
  /\ RestartStep
  /\ UNCHANGED failures

\* the sensor process is killed and started again, counted as a failure
Kill ==
  /\ failures < MaxFailures
  /\ failures' = failures + 1
  /\ RestartStep

\* DurableQueue.delete_sequences called on the queue directly
DeleteSequences(seq_list) ==
  /\ queue' = delete_sequences(queue, seq_list)
  /\ last' = [op |-> "delete_sequences", arg |-> NoArg]
  /\ UNCHANGED <<now, sqlite_sequence, next_event, returned, pruned, dispVars,
                 agentVars, serverVars>>

\* DurableQueue.peek_window called on the queue directly
PeekWindow(since_sequence, max_chunks, max_bytes) ==
  /\ last' = [op |-> "peek_window",
              arg |-> [since_sequence |-> since_sequence,
                       max_chunks |-> max_chunks,
                       max_bytes |-> max_bytes,
                       window |-> peek_window(queue, since_sequence,
                                              max_chunks, max_bytes)]]
  /\ UNCHANGED <<now, queueVars, dispVars, agentVars, serverVars>>

----------------------------------------------------------------------------
(* Server-side operations as actions *)

\* which branch of ingest a posted chunk takes
IngestCase(chunk, authorization) ==
  IF ~validate_sensor(authorization, chunk.sensor_id) THEN "unauthorized"
  ELSE IF chunk.compression # "gzip" THEN "compression"
  ELSE IF Sha256(chunk.payload) # chunk.chunk_sha256 THEN "chunk_hash"
  ELSE IF IsDuplicate(store_chunks, chunk) THEN "duplicate"
  ELSE IF /\ EventKey(chunk) \in DOMAIN store_events
          /\ \/ store_events[EventKey(chunk)].event_sha256 # chunk.event_sha256
             \/ store_events[EventKey(chunk)].chunk_count # chunk.chunk_count
  THEN "conflict"
  ELSE "new"

\* do_POST on a worker thread: ChunkIngestService.ingest and the status sent
IngestStep(chunk, authorization) ==
  \E out \in {http_ingest(chunk, authorization, store_chunks, store_events,
                          now)} :
  LET tasks == IF out.status = 200 THEN dispatched(chunk, out.result) ELSE << >>
  IN /\ store_chunks' = out.chunks
     /\ store_events' = out.events
     /\ offsets' = IF out.status = 200
                   THEN offsets_update(offsets, chunk.sensor_id, chunk.sequence)
                   ELSE offsets
     /\ max_updated' = IF out.status = 200
                       THEN [max_updated EXCEPT
                               ![chunk.sensor_id] = Max(@, chunk.sequence)]
                       ELSE max_updated
     /\ assembled_calls' =
          IF out.status = 200 /\ out.result.assembled_payload # None
          THEN PutKey(assembled_calls, EventKey(chunk),
                      IF EventKey(chunk) \in DOMAIN assembled_calls
                      THEN assembled_calls[EventKey(chunk)] + 1 ELSE 1)
          ELSE assembled_calls
     /\ loop_tasks' = loop_tasks \o tasks
     /\ UNCHANGED <<sessions, control_out, pushVars, workers>>

\* a POST of some client other than the modelled agent
HttpIngest(chunk, authorization) ==
  /\ Len(loop_tasks) + (IF chunk.sensor_id \in Sensors
                        THEN Len(control_out[chunk.sensor_id]) ELSE 0)
       < MaxChannel
  /\ IngestStep(chunk, authorization)
  /\ LET out == http_ingest(chunk, authorization, store_chunks, store_events,
                            now)
     IN /\ Cardinality(out.chunks) <= MaxStored
        /\ last' = [op |-> "http_ingest",
                    arg |-> [status |-> out.status,
                             authorization |-> authorization,
                             case |-> IngestCase(chunk, authorization),
                             key |-> ChunkKey(chunk),
                             attributes |-> chunk.attributes,
                             event |-> EventKey(chunk),
                             chunk_index |-> chunk.chunk_index,
                             payload |-> IF out.status = 200
                                         THEN out.result.assembled_payload
                                         ELSE None,
                             result |-> [f \in DOMAIN out.result
                                                \cap {"stored", "duplicate",
                                                      "event_complete"}
                                           |-> out.result[f]]]]
  /\ UNCHANGED <<now, queueVars, dispVars, agentVars>>

\* the event loop runs the next coroutine handed over by a worker thread:
\* ControlManager.send_ack or handle_snapshot
LoopRun ==
  /\ loop_tasks # << >>
  /\ LET task == Head(loop_tasks)
         sent == send_ack(sessions, control_out, task)
     IN /\ loop_tasks' = Tail(loop_tasks)
        /\ IF task.kind = "send_ack"
           THEN /\ control_out' = sent.control_out
                /\ last' = [op |-> "send_ack",
                            arg |-> [sensor_id |-> task.sensor_id,
                                     sequence |-> task.sequence,
                                     returned |-> sent.returned]]
                /\ UNCHANGED pushVars
           ELSE /\ \E b \in Broadcasts : coroutines[b].pc = "none"
                /\ \E out \in {handle_snapshot(FreeBroadcast(coroutines),
                                               task.result, snapshot_cache,
                                               clients, stream_lock,
                                               coroutines)} :
                     /\ snapshot_cache' = out.snapshots
                     /\ clients' = out.clients
                     /\ stream_lock' = out.lock
                     /\ coroutines' = out.coroutines
                /\ last' = [op |-> "server", arg |-> NoArg]
                /\ UNCHANGED <<control_out, delivered, registryVars>>
  /\ UNCHANGED <<now, queueVars, dispVars, agentVars, storeVars, offsets,
                 sessions, max_updated, assembled_calls>>

\* the control handler gets a heartbeat of a connected sensor:
\* handle_heartbeat, RequestScheduler.request_sensor, send_chunk_request
HeartbeatStep(sensor_id, last_committed_sequence, depth) ==
  LET offs == offsets_update(offsets, sensor_id, last_committed_sequence)
      sent == request_sensor(sessions, control_out, offs, sensor_id, now)
  IN /\ sensor_id \in sessions
     /\ offsets' = offs
     /\ max_updated' = [max_updated EXCEPT
                          ![sensor_id] = Max(@, last_committed_sequence)]
     /\ IF depth > 0
        THEN /\ control_out' = sent.control_out
             /\ last' = [op |-> "send_chunk_request",
                         arg |-> [sensor_id |-> sensor_id,
                                  returned |-> sent.returned]]
        ELSE /\ last' = [op |-> "server", arg |-> NoArg]
             /\ UNCHANGED control_out
     /\ UNCHANGED <<storeVars, sessions, loop_tasks, pushVars,
                    assembled_calls>>

\* RequestScheduler.request_sensor called for a sensor, connected or not
RequestSensor(sensor_id) ==
  LET sent == request_sensor(sessions, control_out, offsets, sensor_id, now)
  IN /\ Len(control_out[sensor_id]) < MaxChannel
     /\ control_out' = sent.control_out
     /\ last' = [op |-> "send_chunk_request",
                 arg |-> [sensor_id |-> sensor_id,
                          returned |-> sent.returned]]
     /\ UNCHANGED <<now, queueVars, dispVars, agentVars, storeVars, offsets,
                    sessions, loop_tasks, pushVars, max_updated,
                    assembled_calls>>

ServerHeartbeat(sensor_id, last_committed_sequence, depth) ==
  /\ Len(control_out[sensor_id]) < MaxChannel
  /\ HeartbeatStep(sensor_id, last_committed_sequence, depth)
  /\ UNCHANGED <<now, queueVars, dispVars, agentVars>>

\* a sensor other than the modelled agent reads its next control envelope
SensorDrain(sensor_id) ==
  /\ control_out[sensor_id] # << >>
  /\ control_out' = [control_out EXCEPT ![sensor_id] = Tail(@)]
  /\ last' = [op |-> "server", arg |-> NoArg]
  /\ UNCHANGED <<now, queueVars, dispVars, agentVars, storeVars, offsets,
                 sessions, loop_tasks, pushVars, max_updated,
                 assembled_calls>>

\* a client opens a control connection: control_server._handler up to its
\* message loop
ControlConnect(sensor_id, authorization) ==
  LET out == control_handler(sensor_id, authorization)
  IN /\ sessions' = IF out.registered THEN sessions \cup {sensor_id}
                    ELSE sessions
     /\ last' = [op |-> "control_connect",
                 arg |-> [sensor_id |-> sensor_id,
                          authorization |-> authorization,
                          close_code |-> out.close_code,
                          registered |-> out.registered,
                          serving |-> out.serving]]
     /\ UNCHANGED <<now, queueVars, dispVars, agentVars, storeVars, offsets,
                    loop_tasks, control_out, pushVars, max_updated,
                    assembled_calls>>

\* the connection of a sensor ends: the handler's finally runs
\* ControlManager.unregister, and what was on its way to the sensor is lost
ControlClose(sensor_id) ==
  /\ sensor_id \in sessions
  /\ sessions' = sessions \ {sensor_id}
  /\ control_out' = [control_out EXCEPT ![sensor_id] = << >>]
  /\ last' = [op |-> "server", arg |-> NoArg]
  /\ UNCHANGED <<now, queueVars, dispVars, agentVars, storeVars, offsets,
                 loop_tasks, pushVars, max_updated, assembled_calls>>

StoreInit ==
  /\ now = 0
  /\ SensorInit
  /\ ServerInit
  /\ sessions = {"s1"}
  /\ last = [op |-> "init", arg |-> NoArg]

StoreNext ==
  \/ Tick(MaxTime)
  \/ \E chunk \in PostedChunks, authorization \in PostHeaders :
       HttpIngest(chunk, authorization)
  \/ LoopRun
  \/ \E sensor_id \in Sensors, seq \in 0..MaxStoreSeq :
       ServerHeartbeat(sensor_id, seq, 0)
  \/ \E sensor_id \in Sensors : RequestSensor(sensor_id)
  \/ \E sensor_id \in Sensors : SensorDrain(sensor_id)

StoreSpec == StoreInit /\ [][StoreNext]_vars

----------------------------------------------------------------------------
(* ChunkStore.ingest on several worker threads.  The threads share one
   connection opened with isolation_level=None and check_same_thread=False
   and take no lock: sqlite runs one statement at a time, and between two
   statements of one call any statement of another call may run. *)

WorkerRaised(worker, error) ==
  [worker EXCEPT !.pc = "done", !.error = error]

WorkerReturned(worker, result) ==
  [worker EXCEPT !.pc = "done", !.result = result]

\* do_POST reaches ChunkStore.ingest: the checks made before any statement
WorkerIngest(w, chunk) ==
  /\ workers[w].pc = "idle"
  /\ workers' = [workers EXCEPT ![w] =
       IF chunk.compression # "gzip"
       THEN WorkerRaised([@ EXCEPT !.chunk = chunk], "unsupported compression")
       ELSE IF ~ChunkHashMatches(chunk)
       THEN WorkerRaised([@ EXCEPT !.chunk = chunk], "chunk hash mismatch")
       ELSE [@ EXCEPT !.pc = "select_chunk", !.chunk = chunk]]
  /\ last' = [op |-> "worker_ingest", arg |-> NoArg]
  /\ UNCHANGED <<now, queueVars, dispVars, agentVars, store_chunks,
                 store_events, offsets, sessions, loop_tasks, control_out,
                 pushVars, max_updated, assembled_calls>>

\* SELECT 1 FROM chunks WHERE sensor_id = ? AND sequence = ?
WorkerSelectChunk(w) ==
  /\ workers[w].pc = "select_chunk"
  /\ workers' = [workers EXCEPT ![w].pc =
       IF IsDuplicate(store_chunks, workers[w].chunk)
       THEN "event_complete" ELSE "insert_chunk"]
  /\ last' = [op |-> "worker_select_chunk", arg |-> NoArg]
  /\ UNCHANGED <<now, queueVars, dispVars, agentVars, store_chunks,
                 store_events, offsets, sessions, loop_tasks, control_out,
                 pushVars, max_updated, assembled_calls>>

\* the early return for a duplicate, with the SELECT of _event_complete
WorkerEventComplete(w) ==
  /\ workers[w].pc = "event_complete"
  /\ workers' = [workers EXCEPT ![w] =
       WorkerReturned(@, DuplicateOutcome(@.chunk, store_chunks,
                                          store_events).result)]
  /\ last' = [op |-> "worker_event_complete", arg |-> NoArg]
  /\ UNCHANGED <<now, queueVars, dispVars, agentVars, store_chunks,
                 store_events, offsets, sessions, loop_tasks, control_out,
                 pushVars, max_updated, assembled_calls>>

\* INSERT INTO chunks; PRIMARY KEY (sensor_id, sequence)
WorkerInsertChunk(w) ==
  /\ workers[w].pc = "insert_chunk"
  /\ IF IsDuplicate(store_chunks, workers[w].chunk)
     THEN /\ workers' = [workers EXCEPT ![w] =
                           WorkerRaised(@, "IntegrityError chunks")]
          /\ UNCHANGED store_chunks
     ELSE /\ workers' = [workers EXCEPT ![w].pc = "select_event"]
          /\ store_chunks' = store_chunks \cup {ChunkRow(workers[w].chunk)}
  /\ last' = [op |-> "worker_insert_chunk", arg |-> NoArg]
  /\ UNCHANGED <<now, queueVars, dispVars, agentVars,
                 store_events, offsets, sessions, loop_tasks, control_out,
                 pushVars, max_updated, assembled_calls>>

\* SELECT chunk_count, event_sha256, received_chunks FROM events, and the
\* comparison of the row with the chunk
WorkerSelectEvent(w) ==
  LET chunk == workers[w].chunk
      key == EventKey(chunk)
  IN /\ workers[w].pc = "select_event"
     /\ workers' = [workers EXCEPT ![w] =
          IF key \notin DOMAIN store_events
          THEN [@ EXCEPT !.pc = "write_event", !.has_row = FALSE]
          ELSE IF store_events[key].event_sha256 # chunk.event_sha256
          THEN WorkerRaised(@, "event hash mismatch")
          ELSE IF store_events[key].chunk_count # chunk.chunk_count
          THEN WorkerRaised(@, "chunk count mismatch")
          ELSE [@ EXCEPT !.pc = "write_event", !.has_row = TRUE,
                         !.event_row = store_events[key]]]
     /\ last' = [op |-> "worker_select_event", arg |-> NoArg]
     /\ UNCHANGED <<now, queueVars, dispVars, agentVars, store_chunks,
                    store_events, offsets, sessions, loop_tasks, control_out,
                    pushVars, max_updated, assembled_calls>>

\* UPDATE events SET received_chunks of the row read before, or INSERT INTO
\* events; PRIMARY KEY (sensor_id, event_id)
WorkerWriteEvent(w) ==
  LET chunk == workers[w].chunk
      key == EventKey(chunk)
      received == IF workers[w].has_row
                  THEN workers[w].event_row.received_chunks + 1 ELSE 1
      next_pc == IF received >= chunk.chunk_count THEN "complete" ELSE "prune"
  IN /\ workers[w].pc = "write_event"
     /\ IF workers[w].has_row
        THEN /\ store_events' =
                  IF key \in DOMAIN store_events
                  THEN [store_events EXCEPT ![key].received_chunks = received]
                  ELSE store_events
             /\ workers' = [workers EXCEPT ![w].pc = next_pc,
                                           ![w].received = received]
        ELSE IF key \in DOMAIN store_events
        THEN /\ workers' = [workers EXCEPT ![w] =
                              WorkerRaised(@, "IntegrityError events")]
             /\ UNCHANGED store_events
        ELSE /\ store_events' =
                  PutKey(store_events, key,
                         [chunk_count |-> chunk.chunk_count,
                          event_sha256 |-> chunk.event_sha256,
                          received_chunks |-> received,
                          completed_at |-> NULL])
             /\ workers' = [workers EXCEPT ![w].pc = next_pc,
                                           ![w].received = received]
     /\ last' = [op |-> "worker_write_event", arg |-> NoArg]
     /\ UNCHANGED <<now, queueVars, dispVars, agentVars, store_chunks,
                    offsets, sessions, loop_tasks, control_out,
                    pushVars, max_updated, assembled_calls>>

\* UPDATE events SET completed_at, then _assemble_event and the hash check
WorkerComplete(w) ==
  LET chunk == workers[w].chunk
      key == EventKey(chunk)
      assembled == assemble_event(store_chunks, chunk.sensor_id,
                                  chunk.event_id)
  IN /\ workers[w].pc = "complete"
     /\ store_events' = IF key \in DOMAIN store_events
                        THEN [store_events EXCEPT ![key].completed_at = now]
                        ELSE store_events
     /\ workers' = [workers EXCEPT ![w] =
          IF Sha256(assembled) # chunk.event_sha256
          THEN WorkerRaised(@, "event payload hash mismatch")
          ELSE [@ EXCEPT !.pc = "prune", !.assembled = assembled]]
     /\ last' = [op |-> "worker_complete", arg |-> NoArg]
     /\ UNCHANGED <<now, queueVars, dispVars, agentVars, store_chunks,
                    offsets, sessions, loop_tasks, control_out,
                    pushVars, max_updated, assembled_calls>>

\* _prune_locked and the return of the result
WorkerPrune(w) ==
  LET worker == workers[w]
      kept == store_prune_locked(store_chunks, store_events, now,
                                 StoreRetention)
  IN /\ worker.pc = "prune"
     /\ store_chunks' = kept.chunks
     /\ store_events' = kept.events
     /\ workers' = [workers EXCEPT ![w] =
          WorkerReturned(@, IngestResult(worker.chunk, TRUE, FALSE,
                                         worker.received
                                           >= worker.chunk.chunk_count,
                                         worker.assembled))]
     /\ last' = [op |-> "worker_prune", arg |-> NoArg]
     /\ UNCHANGED <<now, queueVars, dispVars, agentVars,
                    offsets, sessions, loop_tasks, control_out,
                    pushVars, max_updated, assembled_calls>>

\* the response is written and the thread ends
WorkerDone(w) ==
  /\ workers[w].pc = "done"
  /\ workers' = [workers EXCEPT ![w] = IdleWorker]
  /\ last' = [op |-> "worker_done", arg |-> NoArg]
  /\ UNCHANGED <<now, queueVars, dispVars, agentVars, store_chunks,
                 store_events, offsets, sessions, loop_tasks, control_out,
                 pushVars, max_updated, assembled_calls>>

\* the chunks the sensors post while the workers run
WorkerChunks ==
  HonestChunks \cup OtherSensorChunks
    \cup {Tampered(c, "payload") : c \in {c \in HonestChunks : c.sequence = 2}}

WorkerNext ==
  \/ \E w \in Workers, chunk \in WorkerChunks : WorkerIngest(w, chunk)
  \/ \E w \in Workers : WorkerSelectChunk(w)
  \/ \E w \in Workers : WorkerEventComplete(w)
  \/ \E w \in Workers : WorkerInsertChunk(w)
  \/ \E w \in Workers : WorkerSelectEvent(w)
  \/ \E w \in Workers : WorkerWriteEvent(w)
  \/ \E w \in Workers : WorkerComplete(w)
  \/ \E w \in Workers : WorkerPrune(w)
  \/ \E w \in Workers : WorkerDone(w)

WorkerSpec == StoreInit /\ [][WorkerNext]_vars

----------------------------------------------------------------------------
(* The snapshot cache and the streamer with their observers.  The coroutines
   run on one event loop: a step is what a coroutine does between two
   points where it waits (for the lock, or for a send to finish). *)

\* the Authorization header of an observer; << >> when it is missing
ObserverHeaders == {<< >>, <<"Bearer ", "tokU">>, <<"Bearer ", "tok1">>}

\* the results handed to the snapshot cache
CacheResults ==
  {[stored |-> outcome.stored, duplicate |-> ~outcome.stored,
    sequence |-> 1, event_id |-> event_id, sensor_id |-> sensor_id,
    event_complete |-> outcome.complete,
    assembled_payload |-> outcome.payload] :
     sensor_id \in Sensors, event_id \in 1..MaxEvents,
     outcome \in {[stored |-> TRUE, complete |-> FALSE, payload |-> None],
                  [stored |-> FALSE, complete |-> TRUE, payload |-> None],
                  [stored |-> TRUE, complete |-> TRUE, payload |-> << >>],
                  [stored |-> TRUE, complete |-> TRUE, payload |-> <<7>>]}}

\* the results ChunkIngestService.ingest calls on_snapshot for
SnapshotResults ==
  {r \in CacheResults : /\ r.event_complete /\ Truthy(r.assembled_payload)
                        /\ r.event_id <= 2}

StreamUnchanged ==
  UNCHANGED <<now, queueVars, dispVars, agentVars, storeVars, offsets,
              sessions, loop_tasks, control_out, max_updated,
              assembled_calls, registryVars>>

\* SnapshotCache.update_from_ingest called on its own
UpdateFromIngest(ingest) ==
  \E res \in {update_from_ingest(snapshot_cache, ingest)} :
    /\ snapshot_cache' = res.snapshots
    /\ last' = [op |-> "update_from_ingest",
                arg |-> [ingest |-> ingest, returned |-> res.returned]]
    /\ UNCHANGED <<clients, stream_lock, coroutines, delivered>>
    /\ StreamUnchanged

\* the event loop starts handle_snapshot for a completed event
HandleSnapshot(ingest) ==
  /\ \E b \in Broadcasts : coroutines[b].pc = "none"
  /\ \A o \in Observers : Len(delivered[o]) < MaxDelivered
  /\ \E out \in {handle_snapshot(FreeBroadcast(coroutines), ingest,
                                 snapshot_cache, clients, stream_lock,
                                 coroutines)} :
       /\ snapshot_cache' = out.snapshots
       /\ clients' = out.clients
       /\ stream_lock' = out.lock
       /\ coroutines' = out.coroutines
       /\ last' = [op |-> "handle_snapshot",
                   arg |-> [ingest |-> ingest, returned |-> out.returned]]
  /\ UNCHANGED delivered
  /\ StreamUnchanged

\* an observer connects: _handler up to its first wait
ObserverConnect(o, authorization) ==
  /\ coroutines[o].pc = "none"
  /\ \A other \in Observers : Len(delivered[other]) < MaxDelivered
  /\ IF ~observer_authorized(authorization)
     THEN /\ last' = [op |-> "rejected",
                      arg |-> [observer |-> o,
                               authorization |-> authorization]]
          /\ UNCHANGED pushVars
     ELSE /\ delivered' = [delivered EXCEPT ![o] = << >>]
          /\ last' = [op |-> "connected",
                      arg |-> [observer |-> o,
                               authorization |-> authorization]]
          /\ LET cors == [coroutines EXCEPT
                            ![o].authorization = authorization]
             IN IF stream_lock # << >>
                THEN /\ stream_lock' = Append(stream_lock, o)
                     /\ coroutines' = [cors EXCEPT ![o].pc = "wait_add"]
                     /\ UNCHANGED clients
                ELSE \E out \in {handler_add(o, snapshot_cache, clients,
                                             <<o>>, cors)} :
                       /\ clients' = out.clients
                       /\ stream_lock' = out.lock
                       /\ coroutines' = out.coroutines
          /\ UNCHANGED snapshot_cache
  /\ StreamUnchanged

\* a handler that waited for the lock gets it and adds its websocket
HandlerAdd(o) ==
  /\ coroutines[o].pc = "wait_add"
  /\ Head(stream_lock) = o
  /\ \E out \in {handler_add(o, snapshot_cache, clients, stream_lock,
                             coroutines)} :
       /\ clients' = out.clients
       /\ stream_lock' = out.lock
       /\ coroutines' = out.coroutines
  /\ last' = [op |-> "handler_add", arg |-> [observer |-> o]]
  /\ UNCHANGED <<snapshot_cache, delivered>>
  /\ StreamUnchanged

\* a coroutine that waited in _publish for the lock gets it
PublishAcquire(c) ==
  /\ coroutines[c].pc = "wait_publish"
  /\ Head(stream_lock) = c
  /\ \E out \in {publish_locked(c, coroutines[c].message, clients,
                                stream_lock, coroutines)} :
       /\ clients' = out.clients
       /\ stream_lock' = out.lock
       /\ coroutines' = out.coroutines
  /\ last' = [op |-> "publish_acquire", arg |-> [coroutine |-> c]]
  /\ UNCHANGED <<snapshot_cache, delivered>>
  /\ StreamUnchanged

\* one pass of the loop of _publish: client.send returns (ok) or raises;
\* after the last client the dead ones are discarded and the lock released
PublishSend(c, client, ok) ==
  /\ coroutines[c].pc = "publishing"
  /\ client \in publish_remaining(coroutines[c])
  /\ ok => coroutines[client].pc \notin {"none", "wait_discard"}
  /\ LET task == [coroutines[c] EXCEPT
                    !.attempts = Append(@, client),
                    !.dead = IF ok THEN @ ELSE @ \cup {client}]
     IN /\ delivered' = IF ok
                        THEN [delivered EXCEPT
                                ![client] = Append(@, task.message)]
                        ELSE delivered
        /\ IF publish_remaining(task) = {}
           THEN /\ clients' = clients \ task.dead
                /\ stream_lock' = Tail(stream_lock)
                /\ coroutines' = [coroutines EXCEPT
                                    ![c] = AfterPublish(c, task)]
                /\ last' = [op |-> "published",
                            arg |-> [coroutine |-> c, task |-> task]]
           ELSE /\ coroutines' = [coroutines EXCEPT ![c] = task]
                /\ last' = [op |-> "send", arg |-> [coroutine |-> c]]
                /\ UNCHANGED <<clients, stream_lock>>
  /\ UNCHANGED snapshot_cache
  /\ StreamUnchanged

\* the observer's connection ends: the finally block of _handler
ObserverClose(o) ==
  /\ coroutines[o].pc = "reading"
  /\ IF stream_lock # << >>
     THEN /\ stream_lock' = Append(stream_lock, o)
          /\ coroutines' = [coroutines EXCEPT ![o].pc = "wait_discard"]
          /\ UNCHANGED clients
     ELSE /\ clients' = clients \ {o}
          /\ coroutines' = [coroutines EXCEPT ![o] = NoCoroutine]
          /\ UNCHANGED stream_lock
  /\ last' = [op |-> "observer_close", arg |-> [observer |-> o]]
  /\ UNCHANGED <<snapshot_cache, delivered>>
  /\ StreamUnchanged

\* a handler that waited for the lock in its finally block gets it
HandlerDiscard(o) ==
  /\ coroutines[o].pc = "wait_discard"
  /\ Head(stream_lock) = o
  /\ clients' = clients \ {o}
  /\ stream_lock' = Tail(stream_lock)
  /\ coroutines' = [coroutines EXCEPT ![o] = NoCoroutine]
  /\ last' = [op |-> "handler_discard", arg |-> [observer |-> o]]
  /\ UNCHANGED <<snapshot_cache, delivered>>
  /\ StreamUnchanged

CacheNext == \E ingest \in CacheResults : UpdateFromIngest(ingest)

CacheSpec == StoreInit /\ [][CacheNext]_vars

StreamNext ==
  \/ \E ingest \in SnapshotResults : HandleSnapshot(ingest)
  \/ \E o \in Observers, authorization \in ObserverHeaders :
       ObserverConnect(o, authorization)
  \/ \E o \in Observers : HandlerAdd(o)
  \/ \E c \in Coroutines : PublishAcquire(c)
  \/ \E c \in Coroutines, client \in Observers, ok \in BOOLEAN :
       PublishSend(c, client, ok)
  \/ \E o \in Observers : ObserverClose(o)
  \/ \E o \in Observers : HandlerDiscard(o)

StreamSpec == StoreInit /\ [][StreamNext]_vars

----------------------------------------------------------------------------
(* The agent of sensor s1 against the server *)

AgentToken == "tok1"

\* WebsocketControlChannel._ensure_connection, called by recv of run or by
\* send of the heartbeat loop, and ControlManager.register
Connect ==
  /\ SensorId \notin sessions
  /\ pc \in {"handshake", "recv"} \/ heartbeat_task = "running"
  /\ control_handler(SensorId, <<"Bearer ", AgentToken>>).registered
  /\ sessions' = sessions \cup {SensorId}
  /\ last' = [op |-> "agent", arg |-> NoArg]
  /\ UNCHANGED <<now, queueVars, dispVars, agentVars, storeVars, offsets,
                 loop_tasks, control_out, pushVars, max_updated,
                 assembled_calls>>

\* the control connection breaks: ControlManager.unregister, and what was on
\* its way to the sensor is lost
Disconnect ==
  /\ SensorId \in sessions
  /\ failures < MaxFailures
  /\ failures' = failures + 1
  /\ sessions' = sessions \ {SensorId}
  /\ control_out' = [control_out EXCEPT ![SensorId] = << >>]
  /\ last' = [op |-> "agent", arg |-> NoArg]
  /\ UNCHANGED <<now, queueVars, dispVars, pc, agent_chunks, backoffVars,
                 stopVars, storeVars, offsets, loop_tasks, pushVars,
                 max_updated, assembled_calls>>

\* SensorAgent._send_heartbeat and the server's handling of it
AgentHeartbeat ==
  /\ heartbeat_task = "running"
  /\ Len(control_out[SensorId]) < MaxChannel
  /\ HeartbeatStep(SensorId, last_ack_sequence, queue_depth(queue))
  /\ UNCHANGED <<now, queueVars, dispVars, agentVars>>

\* SensorAgent.run with handshake_pending set, at the start and after every
\* failed recv: _send_heartbeat, whose send connects if it has to.  A send
\* that raises is logged and run goes on to recv all the same.
RunHandshake ==
  /\ pc = "handshake"
  /\ ~stop_event
  /\ pc' = "recv"
  /\ IF SensorId \in sessions
     THEN /\ Len(control_out[SensorId]) <= MaxChannel
          /\ HeartbeatStep(SensorId, last_ack_sequence, queue_depth(queue))
     ELSE /\ last' = [op |-> "agent", arg |-> NoArg]
          /\ UNCHANGED serverVars
  /\ UNCHANGED <<now, queueVars, dispVars, agent_chunks, backoffVars,
                 failures, stopVars>>

\* SensorAgent.run gets the next envelope. control.recv returns it and
\* _handle_control handles it, or ControlEnvelope.from_dict raises inside
\* control.recv on a body_type it does not know or on a message that is not
\* an envelope, and run closes the channel and sleeps
AgentRecv ==
  /\ pc = "recv"
  /\ SensorId \in sessions
  /\ control_out[SensorId] # << >>
  /\ LET envelope == Head(control_out[SensorId])
     IN IF envelope.body_type = "chunk_ack"
        THEN \E res \in {handle_ack(queue, windows, in_flight,
                                    last_ack_sequence, envelope.body)} :
                /\ queue' = res.queue
                /\ windows' = res.windows
                /\ in_flight' = res.in_flight
                /\ last_ack_sequence' = res.last_ack_sequence
                /\ outstanding' = Acked(outstanding, envelope.body)
                /\ control_out' = [control_out EXCEPT ![SensorId] = Tail(@)]
                /\ recv_backoff' = backoff_reset
                /\ last' = [op |-> "agent_ack", arg |-> NoArg]
                /\ UNCHANGED <<pc, agent_chunks, sessions>>
        ELSE IF envelope.body_type = "chunk_request"
        THEN \E res \in {build_chunks(queue, windows, in_flight,
                                      envelope.body)} :
                /\ windows' = res.windows
                /\ in_flight' = res.in_flight
                /\ agent_chunks' = res.to_send
                /\ outstanding' = HandedOut(outstanding, envelope.body,
                                            res.to_send)
                /\ pc' = IF res.to_send = << >> THEN "recv" ELSE "sending"
                /\ control_out' = [control_out EXCEPT ![SensorId] = Tail(@)]
                /\ recv_backoff' = backoff_reset
                /\ last' = [op |-> "agent", arg |-> NoArg]
                /\ UNCHANGED <<queue, last_ack_sequence, sessions>>
        ELSE /\ sessions' = sessions \ {SensorId}
             /\ control_out' = [control_out EXCEPT ![SensorId] = << >>]
             /\ pc' = "recv_sleep"
             /\ recv_backoff' = next_interval(recv_backoff)
             /\ last' = [op |-> "recv_raised",
                         arg |-> [body_type |-> envelope.body_type]]
             /\ UNCHANGED <<queue, dispVars, agent_chunks>>
  /\ UNCHANGED <<now, sqlite_sequence, next_event, returned, pruned,
                 send_backoff, failures, stopVars, storeVars, offsets,
                 loop_tasks, pushVars, max_updated, assembled_calls>>

\* send_chunk returned: the loop of _handle_chunk_request moves on
AgentSent ==
  /\ agent_chunks' = Tail(agent_chunks)
  /\ send_backoff' = 0
  /\ UNCHANGED recv_backoff
  /\ pc' = IF Tail(agent_chunks) = << >> THEN "recv" ELSE "sending"

\* send_chunk raised: sleep and try again
AgentFailed ==
  /\ agent_chunks' = after_send_failure(agent_chunks)
  /\ send_backoff' = next_interval(send_backoff)
  /\ UNCHANGED recv_backoff
  /\ pc' = IF after_send_failure(agent_chunks) = << >> THEN "recv" ELSE "sending"

\* HttpChunkSender.send_chunk of the chunk at hand reaches the server; the
\* answer reaches the agent, or is lost on the way back
AgentPost(answered) ==
  /\ pc = "sending"
  /\ Len(loop_tasks) < MaxChannel
  /\ IngestStep(Head(agent_chunks), <<"Bearer ", AgentToken>>)
  /\ IF answered
     THEN /\ IF http_ingest(Head(agent_chunks), <<"Bearer ", AgentToken>>,
                         store_chunks,
                            store_events, now).status = 200
             THEN AgentSent ELSE AgentFailed
          /\ UNCHANGED failures
     ELSE /\ failures < MaxFailures
          /\ failures' = failures + 1
          /\ AgentFailed
  /\ last' = [op |-> "agent", arg |-> NoArg]
  /\ UNCHANGED <<now, queueVars, dispVars, stopVars>>

\* the POST never reaches the server
AgentPostLost ==
  /\ pc = "sending"
  /\ failures < MaxFailures
  /\ failures' = failures + 1
  /\ AgentFailed
  /\ last' = [op |-> "agent", arg |-> NoArg]
  /\ UNCHANGED <<now, queueVars, dispVars, stopVars, serverVars>>

Init ==
  /\ now = 0
  /\ SensorInit
  /\ ServerInit
  /\ sessions = {}
  /\ last = [op |-> "init", arg |-> NoArg]

Next ==
  \/ Tick(MaxTime)
  \/ \E payload \in DispPayloads : Enqueue(payload, MaxSpecEnqueued)
  \/ Connect
  \/ Disconnect
  \/ AgentHeartbeat
  \/ RunHandshake
  \/ AgentRecv
  \/ \E answered \in BOOLEAN : AgentPost(answered)
  \/ AgentPostLost
  \/ LoopRun
  \/ Restart

Spec == Init /\ [][Next]_vars

\* the agent and the server left to run: the clock stands still, the sensor
\* process is not restarted, and the links fail MaxFailures times at most
FairNext ==
  \/ \E payload \in DispPayloads : Enqueue(payload, MaxFairEnqueued)
  \/ Connect
  \/ Disconnect
  \/ AgentHeartbeat
  \/ RunHandshake
  \/ AgentRecv
  \/ AgentPost(TRUE)
  \/ AgentPost(FALSE)
  \/ AgentPostLost
  \/ LoopRun

\* SensorAgent.run has an envelope to read: AgentRecv can be taken
AgentRecvReady ==
  /\ pc = "recv"
  /\ SensorId \in sessions
  /\ control_out[SensorId] # << >>

\* _send_chunk_with_backoff has a chunk at hand: AgentPost can be taken
AgentPostReady ==
  /\ pc = "sending"
  /\ Len(loop_tasks) < MaxChannel

\* the heartbeat loop and the receive loop of SensorAgent.run keep going, a
\* lost connection is opened again, the retry loop of
\* _send_chunk_with_backoff keeps posting, the event loop runs its tasks.
\* Weak fairness of AgentRecv and of AgentPost(TRUE) is written out with
\* their enabling conditions.
FairSpec ==
  /\ Init
  /\ [][FairNext]_vars
  /\ WF_vars(Connect)
  /\ WF_vars(AgentHeartbeat)
  /\ WF_vars(RunHandshake)
  /\ WF_vars(LoopRun)
  /\ ([]<>(~AgentRecvReady) \/ []<><<AgentRecv>>_vars)
  /\ ([]<>(~AgentPostReady) \/ []<><<AgentPost(TRUE)>>_vars)

\* as FairSpec, with a kill and restart of the sensor process among the
\* failures
RestartNext ==
  \/ FairNext
  \/ Kill

RestartSpec ==
  /\ Init
  /\ [][RestartNext]_vars
  /\ WF_vars(Connect)
  /\ WF_vars(AgentHeartbeat)
  /\ WF_vars(RunHandshake)
  /\ WF_vars(LoopRun)
  /\ ([]<>(~AgentRecvReady) \/ []<><<AgentRecv>>_vars)
  /\ ([]<>(~AgentPostReady) \/ []<><<AgentPost(TRUE)>>_vars)

\* SensorAgent.shutdown: set the stop signal and close the control channel
Shutdown ==
  /\ ~stop_event
  /\ pc # "done"
  /\ stop_event' = TRUE
  /\ sessions' = sessions \ {SensorId}
  /\ control_out' = [control_out EXCEPT ![SensorId] = << >>]
  /\ last' = [op |-> "shutdown", arg |-> NoArg]
  /\ UNCHANGED <<now, queueVars, dispVars, pc, agent_chunks, backoffVars,
                 failures, heartbeat_task, storeVars, offsets, loop_tasks,
                 pushVars, max_updated, assembled_calls>>

\* the finally block of run: cancel the heartbeat task, close the channel
RunFinally ==
  /\ pc' = "done"
  /\ heartbeat_task' = "done"
  /\ sessions' = sessions \ {SensorId}
  /\ control_out' = [control_out EXCEPT ![SensorId] = << >>]
  /\ last' = [op |-> "run_returned", arg |-> NoArg]
  /\ UNCHANGED <<now, queueVars, dispVars, agent_chunks, backoffVars,
                 failures, stop_event, storeVars, offsets, loop_tasks,
                 pushVars, max_updated, assembled_calls>>

\* run finds the stop signal set at the head of its loop; a recv that was
\* waiting on the channel shutdown closed raises and comes here by RunWake
RunStopObserved ==
  /\ pc \in {"handshake", "recv"}
  /\ stop_event
  /\ RunFinally

\* the sleep after a failed recv is over: back to the head of the loop
RunWake ==
  /\ pc = "recv_sleep"
  /\ IF stop_event
     THEN RunFinally
     ELSE /\ pc' = "handshake"
          /\ last' = [op |-> "agent", arg |-> NoArg]
          /\ UNCHANGED <<now, queueVars, dispVars, agent_chunks, backoffVars,
                         failures, stopVars, serverVars>>

\* _heartbeat_loop finds the stop signal set
HeartbeatExit ==
  /\ heartbeat_task = "running"
  /\ stop_event
  /\ heartbeat_task' = "done"
  /\ last' = [op |-> "agent", arg |-> NoArg]
  /\ UNCHANGED <<now, queueVars, dispVars, pc, agent_chunks, backoffVars,
                 failures, stop_event, serverVars>>

\* send_chunk raised in _send_chunk_with_backoff, any number of times:
\* asyncio.sleep(backoff.next_interval())
AgentSendFails ==
  /\ pc = "sending"
  /\ agent_chunks' = after_send_failure(agent_chunks)
  /\ send_backoff' = next_interval(send_backoff)
  /\ UNCHANGED recv_backoff
  /\ pc' = "retry_sleep"
  /\ last' = [op |-> "agent", arg |-> NoArg]
  /\ UNCHANGED <<now, queueVars, dispVars, failures, stopVars, serverVars>>

\* that sleep is over: the while True loop tries again
RetryWake ==
  /\ pc = "retry_sleep"
  /\ pc' = "sending"
  /\ last' = [op |-> "agent", arg |-> NoArg]
  /\ UNCHANGED <<now, queueVars, dispVars, agent_chunks, backoffVars,
                 failures, stopVars, serverVars>>

\* messages that are not a ControlEnvelope of a known body_type
BadEnvelopes ==
  {[body_type |-> "telemetry", body |-> NoArg],
   [body_type |-> "", body |-> NoArg]}

\* the peer of the control channel sends such a message
PeerSends(envelope) ==
  /\ SensorId \in sessions
  /\ Len(control_out[SensorId]) < MaxChannel
  /\ control_out' = [control_out EXCEPT ![SensorId] = Append(@, envelope)]
  /\ last' = [op |-> "server", arg |-> NoArg]
  /\ UNCHANGED <<now, queueVars, dispVars, agentVars, storeVars, offsets,
                 sessions, loop_tasks, pushVars, max_updated,
                 assembled_calls>>

\* SensorAgent.run with its shutdown: posts succeed or keep failing
RunNext ==
  \/ \E payload \in DispPayloads : Enqueue(payload, MaxSpecEnqueued)
  \/ Connect
  \/ AgentHeartbeat
  \/ RunHandshake
  \/ AgentRecv
  \/ AgentPost(TRUE)
  \/ AgentSendFails
  \/ RetryWake
  \/ LoopRun
  \/ \E envelope \in BadEnvelopes : PeerSends(envelope)
  \/ RunWake
  \/ RunStopObserved
  \/ HeartbeatExit
  \/ Shutdown

\* every coroutine of the agent that can take a step takes one
RunSpec ==
  /\ Init
  /\ [][RunNext]_vars
  /\ WF_vars(RunStopObserved)
  /\ WF_vars(RunWake)
  /\ WF_vars(RunHandshake)
  /\ WF_vars(HeartbeatExit)
  /\ WF_vars(RetryWake)
  /\ WF_vars(AgentSendFails)
  /\ ([]<>(~AgentRecvReady) \/ []<><<AgentRecv>>_vars)

DispInit ==
  /\ now = 0
  /\ SensorInit
  /\ ServerInit
  /\ sessions = {}
  /\ last = [op |-> "init", arg |-> NoArg]

DispNext ==
  \/ \E payload \in DispPayloads : Enqueue(payload, MaxDispEnqueued)
  \/ \E request \in Requests : BuildChunks(request)
  \/ \E ack \in Acks : HandleAck(ack)
  \/ Restart

DispSpec == DispInit /\ [][DispNext]_vars

QueueNext ==
  \/ Tick(MaxTime)
  \/ \E payload \in Payloads : Enqueue(payload, MaxEnqueued)
  \/ \E seq_list \in UNION {[1..n -> Sequences] : n \in 0..2} :
       DeleteSequences(seq_list)
  \/ \E since_sequence \in PeekSince, max_chunks \in PeekMaxChunks,
        max_bytes \in PeekMaxBytes :
       PeekWindow(since_sequence, max_chunks, max_bytes)
  \/ Restart

QueueSpec == DispInit /\ [][QueueNext]_vars

\* the control server alone: connections come and go, heartbeats arrive on
\* the registered ones
ControlNext ==
  \/ \E sensor_id \in SensorIdHeaders, authorization \in AuthHeaders :
       ControlConnect(sensor_id, authorization)
  \/ \E sensor_id \in Sensors : ControlClose(sensor_id)
  \/ \E sensor_id \in Sensors, seq \in 0..MaxStoreSeq, depth \in 0..1 :
       ServerHeartbeat(sensor_id, seq, depth)
  \/ \E sensor_id \in Sensors : RequestSensor(sensor_id)
  \/ \E sensor_id \in Sensors : SensorDrain(sensor_id)

ControlSpec == Init /\ [][ControlNext]_vars

----------------------------------------------------------------------------
(* The control server with the connections told apart: a sensor that lost
   its connection opens the next one, and the handler of the old one runs
   its finally block whenever the server notices the loss *)

\* ControlManager.register
register(registry, sensor_id, connection) ==
  [registry EXCEPT ![sensor_id] = connection]

\* ControlManager.unregister
unregister(registry, sensor_id) ==
  [registry EXCEPT ![sensor_id] = NoSession]

\* the sensor has a connection that passed the handler's checks and is open
LiveConnection(sensor_id) ==
  \E k \in Connections : /\ handlers[k].pc = "serving"
                         /\ handlers[k].live
                         /\ handlers[k].sensor_id = sensor_id

RegistryHeaders ==
  {<<"Bearer ", SensorTokens[s]>> : s \in Sensors} \cup {<<"Bearer ", "bad">>}

RegistryUnchanged ==
  UNCHANGED <<now, queueVars, dispVars, agentVars, storeVars, offsets,
              loop_tasks, snapshotVars, max_updated, assembled_calls>>

\* control_server._handler of a new connection up to its message loop.  The
\* sensor holds one websocket at a time: it connects when it has none open.
HandlerConnect(k, sensor_id, authorization) ==
  /\ handlers[k].pc = "none"
  /\ ~LiveConnection(sensor_id)
  /\ LET out == control_handler(sensor_id, authorization)
     IN /\ IF out.registered
           THEN /\ control_sessions' = register(control_sessions, sensor_id, k)
                /\ sessions' = sessions \cup {sensor_id}
                /\ handlers' = [handlers EXCEPT
                                  ![k] = [pc |-> "serving",
                                          sensor_id |-> sensor_id,
                                          live |-> TRUE]]
           ELSE UNCHANGED <<control_sessions, sessions, handlers>>
        /\ last' = [op |-> "handler_connect",
                    arg |-> [connection |-> k, sensor_id |-> sensor_id,
                             registered |-> out.registered]]
  /\ UNCHANGED control_out
  /\ RegistryUnchanged

\* the websocket of a connection closes, by the sensor or by the network;
\* what was on its way to the sensor is lost
ConnectionLost(k) ==
  /\ handlers[k].pc = "serving"
  /\ handlers[k].live
  /\ handlers' = [handlers EXCEPT ![k].live = FALSE]
  /\ control_out' = [control_out EXCEPT ![handlers[k].sensor_id] = << >>]
  /\ last' = [op |-> "connection_lost", arg |-> [connection |-> k]]
  /\ UNCHANGED <<control_sessions, sessions>>
  /\ RegistryUnchanged

\* the handler's message loop ends on the closed websocket: finally,
\* manager.unregister(sensor_id)
HandlerFinally(k) ==
  /\ handlers[k].pc = "serving"
  /\ ~handlers[k].live
  /\ control_sessions' = unregister(control_sessions, handlers[k].sensor_id)
  /\ sessions' = sessions \ {handlers[k].sensor_id}
  /\ handlers' = [handlers EXCEPT ![k] = NoHandler]
  /\ last' = [op |-> "unregister",
              arg |-> [connection |-> k,
                       sensor_id |-> handlers[k].sensor_id]]
  /\ UNCHANGED control_out
  /\ RegistryUnchanged

\* _get_session finds no session, or one whose websocket is open; on a
\* closed websocket send raises ConnectionClosed and nothing is returned
SessionSendable(sensor_id) ==
  IF control_sessions[sensor_id] = NoSession
  THEN TRUE
  ELSE handlers[control_sessions[sensor_id]].live

\* ControlManager.send_ack
ManagerSendAck(sensor_id, sequence) ==
  /\ SessionSendable(sensor_id)
  /\ Len(control_out[sensor_id]) < MaxChannel
  /\ LET task == [kind |-> "send_ack", sensor_id |-> sensor_id,
                  sequence |-> sequence, window_id |-> "default"]
         sent == send_ack(sessions, control_out, task)
     IN /\ control_out' = sent.control_out
        /\ last' = [op |-> "send_ack",
                    arg |-> [sensor_id |-> sensor_id, sequence |-> sequence,
                             returned |-> sent.returned]]
  /\ UNCHANGED <<sessions, registryVars>>
  /\ RegistryUnchanged

\* ControlManager.send_chunk_request, called by the scheduler
ManagerRequest(sensor_id) ==
  /\ SessionSendable(sensor_id)
  /\ RequestSensor(sensor_id)

RegistryNext ==
  \/ \E k \in Connections, sensor_id \in Sensors,
        authorization \in RegistryHeaders :
       HandlerConnect(k, sensor_id, authorization)
  \/ \E k \in Connections : ConnectionLost(k)
  \/ \E k \in Connections : HandlerFinally(k)
  \/ \E sensor_id \in Sensors, sequence \in 1..MaxStoreSeq :
       ManagerSendAck(sensor_id, sequence)
  \/ \E sensor_id \in Sensors : ManagerRequest(sensor_id)
  \/ \E sensor_id \in Sensors : SensorDrain(sensor_id)

RegistrySpec == Init /\ [][RegistryNext]_vars

----------------------------------------------------------------------------
(* common/chunking.py and common/messages.py as operations of their own *)

MaxCodecLen == 4

\* MIN_CHUNK_SIZE and MAX_CHUNK_SIZE, scaled like ChunkSize
MinChunkSize == 1
MaxChunkSize == 3

CodecPayloads == UNION {[1..n -> {7, 8}] : n \in 0..MaxCodecLen}

\* Optional[...]: None, or a value
NoneOpt(empty) == [is_none |-> TRUE, value |-> empty]
Some(v) == [is_none |-> FALSE, value |-> v]

\* the four body variants
Bodies(body_type) ==
  CASE body_type = "heartbeat" ->
         [software_version : {"v1"}, last_committed_sequence : 0..1,
          queue_depth : 0..1, clock_skew_ms : {0}]
    [] body_type = "chunk_request" ->
         [since_sequence : 0..1, max_chunks : {SchedMaxChunks},
          max_bytes : {SchedMaxBytes}, window_id : WindowIds,
          max_in_flight : {SchedMaxInFlight}]
    [] body_type = "chunk_ack" ->
         [window_id : WindowIds,
          committed_sequences : {<< >>, <<1>>, <<1, 2>>},
          reset_window : BOOLEAN]
    [] body_type = "command_response" ->
         [command_id : {"c1"}, success : BOOLEAN, message : {"", "ok"}]

BodyTypes == {"heartbeat", "chunk_request", "chunk_ack", "command_response"}

\* PIPELINE_SCHEMA_VERSION
SchemaVersion == "1"

\* ControlEnvelope objects; sent_at is a time of the model's clock
Envelopes ==
  UNION {[sensor_id : {SensorId},
          body_type : {body_type},
          body : Bodies(body_type),
          sent_at : {NoneOpt(0), Some(0)},
          capabilities : {NoneOpt(<< >>), Some(<< >>), Some(<<"chunks">>)},
          schema_version : {SchemaVersion}] : body_type \in BodyTypes}

\* ControlEnvelope.to_dict at time t: sent_at or _utcnow_iso(),
\* list(capabilities or [])
envelope_to_dict(e, t) ==
  [schema_version |-> e.schema_version,
   sensor_id |-> e.sensor_id,
   sent_at |-> IF e.sent_at.is_none THEN t ELSE e.sent_at.value,
   capabilities |-> IF e.capabilities.is_none THEN << >>
                    ELSE e.capabilities.value,
   body_type |-> e.body_type,
   body |-> e.body]

\* ControlEnvelope.from_dict of a dictionary with a known body_type
envelope_from_dict(data) ==
  [sensor_id |-> data.sensor_id,
   body_type |-> data.body_type,
   body |-> data.body,
   sent_at |-> Some(data.sent_at),
   capabilities |-> Some(data.capabilities),
   schema_version |-> data.schema_version]

ChunkPayload(payload, chunk_size) ==
  /\ last' = [op |-> "chunk_payload",
              arg |-> [payload |-> payload,
                       chunk_size |-> chunk_size,
                       chunks |-> chunk_payload(payload, 1, chunk_size)]]
  /\ UNCHANGED <<now, queueVars, dispVars, agentVars, serverVars>>

EnvelopeRoundTrip(e) ==
  /\ last' = [op |-> "envelope_round_trip",
              arg |-> [envelope |-> e,
                       decoded |-> envelope_from_dict(envelope_to_dict(e, now))]]
  /\ UNCHANGED <<now, queueVars, dispVars, agentVars, serverVars>>

CodecNext ==
  \/ Tick(MaxTime)
  \/ \E payload \in CodecPayloads, chunk_size \in MinChunkSize..MaxChunkSize :
       ChunkPayload(payload, chunk_size)
  \/ \E e \in Envelopes : EnvelopeRoundTrip(e)

CodecSpec == Init /\ [][CodecNext]_vars

----------------------------------------------------------------------------
(* C1: every sequence returned by enqueue is strictly greater than every   *)
(* sequence returned before it, whatever was deleted, pruned or restarted  *)
(* in between.                                                             *)
C1_SequencesStrictlyIncrease ==
  \A i \in 1..Len(returned) : \A j \in 1..Len(returned) :
    i < j => returned[i] < returned[j]

\* enqueue returned a sequence after every row returned before it had gone
\* from the queue
C1_Witness ==
  /\ last.op = "enqueue"
  /\ Len(returned) >= 2
  /\ {r.sequence : r \in queue} = {returned[Len(returned)]}

(* C5: handle_ack leaves no queue row whose sequence is in the ack's       *)
(* committed_sequences and leaves every other row as it was.               *)
C5_AckDeletesExactlyCommitted ==
  [][last'.op = "handle_ack" =>
       queue' = {r \in queue :
                   r.sequence \notin Range(last'.arg.ack.committed_sequences)}]_vars

\* an ack with reset_window set, for a sequence that was not in flight,
\* deleted a row and left another row behind
C5_Witness ==
  /\ last.op = "handle_ack"
  /\ last.arg.ack.reset_window
  /\ last.arg.deleted
  /\ ~last.arg.released
  /\ queue # {}

(* C6: applying the ack that was just applied once more changes neither    *)
(* the queue nor last_ack_sequence, windows or in_flight.                  *)
C6_AckIdempotent ==
  last.op = "handle_ack" =>
    LET again == handle_ack(queue, windows, in_flight, last_ack_sequence,
                            last.arg.ack)
    IN /\ again.queue = queue
       /\ again.windows = windows
       /\ again.in_flight = in_flight
       /\ again.last_ack_sequence = last_ack_sequence

\* an ack with reset_window set deleted a row and released an in-flight
\* sequence while other sequences stay in flight
C6_Witness ==
  /\ last.op = "handle_ack"
  /\ last.arg.ack.reset_window
  /\ last.arg.deleted
  /\ last.arg.released
  /\ DOMAIN in_flight # {}

----------------------------------------------------------------------------
(* C3: every sequence the queue of s1 handed out is eventually in the store,
   or was removed by the queue's retention prune, when heartbeats keep
   coming, each heartbeat of a non-empty queue is answered with a
   ChunkRequest, and links fail and acks are dropped only finitely often. *)

C3_AtLeastOnce ==
  \A n \in 1..MaxFairEnqueued :
    (n \in Range(returned)) ~> (HasChunk(store_chunks, SensorId, n) \/ n \in pruned)

----------------------------------------------------------------------------
(* C4: a POST of a chunk whose (sensor_id, sequence) is already in the store
   is answered stored=false, duplicate=true, with event_complete telling
   whether the events table holds a completion time for the chunk's event;
   it changes no chunk row and no event row (received_chunks included), and
   the store holds exactly one chunk row for that (sensor_id, sequence). *)

RowsOfKey(cks, key) == {r \in cks : <<r.sensor_id, r.sequence>> = key}

----------------------------------------------------------------------------
(* C7: an authorized POST of a chunk whose payload does not hash to its
   chunk_sha256 is answered 400 and has no effect: chunk rows, event rows and
   offsets stay as they were and nothing is handed to the event loop, so no
   ack is sent and no snapshot is cached. *)

C7_HashMismatchHasNoEffect ==
  [][(last'.op = "http_ingest" /\ last'.arg.case = "chunk_hash") =>
       /\ last'.arg.status = 400
       /\ UNCHANGED <<store_chunks, store_events, offsets, loop_tasks,
                      control_out, snapshot_cache>>]_vars

\* the corrupted second chunk arrives when the first one is stored
C7_Witness ==
  /\ last.op = "http_ingest"
  /\ last.arg.case = "chunk_hash"
  /\ last.arg.status = 400
  /\ last.arg.event \in DOMAIN store_events
  /\ store_events[last.arg.event].received_chunks = 1
  /\ RowsOfKey(store_chunks, last.arg.key) = {}

----------------------------------------------------------------------------
(* C8: a POST of a chunk with a new (sensor_id, sequence) that names a stored
   event but carries another event_sha256 or chunk_count is answered 400 and
   leaves the store as it was: no chunk row for it, the event row unchanged. *)

C8_ConflictLeavesStoreUnchanged ==
  [][(last'.op = "http_ingest" /\ last'.arg.case = "conflict") =>
       /\ last'.arg.status = 400
       /\ store_events' = store_events
       /\ store_chunks' = store_chunks
       /\ RowsOfKey(store_chunks', last'.arg.key) = {}]_vars

----------------------------------------------------------------------------
(* C9: for every sensor, offsets.get never decreases and equals the largest
   sequence any offsets.update call was given for that sensor, whether the
   call came from a worker thread of the ingest server or from the heartbeat
   handler; 0 when there was none. *)

C9_OffsetsAreRunningMaximum ==
  /\ [](\A s \in Sensors : offsets_get(offsets, s) = max_updated[s])
  /\ [][\A s \in Sensors : offsets_get(offsets', s) >= offsets_get(offsets, s)]_vars

\* an accepted chunk with a sequence below the offset left the offset alone
C9_Witness ==
  /\ last.op = "http_ingest"
  /\ last.arg.status = 200
  /\ last.arg.key[2] < offsets_get(offsets, "s1")
  /\ offsets_get(offsets, "s1") > Cardinality(store_chunks)
  /\ offsets_get(offsets, "s2") = 0

----------------------------------------------------------------------------
(* C2: every ChunkAck on its way to a sensor, whether still a task of the
   event loop or already an envelope on the control connection, names only
   sequences of which the store holds a chunk row of that sensor; and every
   row the agent's dispatcher deletes from the queue for an ack is a chunk
   the store already holds. *)

StoredAs(row) == ChunkRow(to_data_chunk(row, SensorId)) \in store_chunks

C2_AckOnlyAfterStore ==
  /\ [](\A i \in 1..Len(loop_tasks) :
          loop_tasks[i].kind = "send_ack" =>
            HasChunk(store_chunks, loop_tasks[i].sensor_id,
                     loop_tasks[i].sequence))
  /\ [](\A s \in Sensors : \A i \in 1..Len(control_out[s]) :
          control_out[s][i].body_type = "chunk_ack" =>
            \A n \in Range(control_out[s][i].body.committed_sequences) :
              HasChunk(store_chunks, s, n))
  /\ [][last'.op = "agent_ack" => \A row \in queue \ queue' : StoredAs(row)]_vars

\* an ack just removed the second chunk of an event from the queue
C2_Witness ==
  /\ last.op = "agent_ack"
  /\ queue = {}
  /\ last_ack_sequence = 2
  /\ \E r \in store_chunks : r.sequence = 2 /\ r.chunk_index = 1

----------------------------------------------------------------------------
(* C10: every sequence the queue of s1 handed out that is at or below
   offsets.get(s1), and that the queue's retention prune did not remove, has
   a chunk row in the store. *)

C10_OffsetWithinStored ==
  \A n \in Range(returned) \ pruned :
    n <= offsets_get(offsets, SensorId) => HasChunk(store_chunks, SensorId, n)

\* the offset reached 2 after a link failure, one row was pruned from the
\* queue and another is still in it
C10_Witness ==
  /\ offsets_get(offsets, SensorId) = 2
  /\ failures > 0
  /\ pruned # {}
  /\ queue # {}

(* C15: when the queue holds a row with sequence > since_sequence and      *)
(* max_chunks >= 1, peek_window returns a non-empty list whose first       *)
(* element is the lowest such row, even when that row's payload is larger  *)
(* than max_bytes.                                                         *)
C15_PeekProgress ==
  last.op = "peek_window" =>
    LET after == {r \in queue : r.sequence > last.arg.since_sequence}
        window == last.arg.window
    IN (after # {} /\ last.arg.max_chunks >= 1) =>
         /\ window # << >>
         /\ window[1] \in after
         /\ window[1].sequence = SetMin({r.sequence : r \in after})

\* peek_window returned a first row larger than max_bytes that is not the
\* lowest row of the queue
C15_Witness ==
  /\ last.op = "peek_window"
  /\ last.arg.window # << >>
  /\ payload_size(last.arg.window[1]) > last.arg.max_bytes
  /\ \E r \in queue : r.sequence <= last.arg.since_sequence

\* total_bytes of a window
RECURSIVE TotalBytes(_)
TotalBytes(window) ==
  IF window = << >> THEN 0
  ELSE payload_size(Head(window)) + TotalBytes(Tail(window))

(* C16: peek_window returns a prefix, in ascending sequence order, of the  *)
(* rows with sequence > since_sequence: at most max_chunks rows, of total  *)
(* payload size at most max_bytes unless the result is a single oversize   *)
(* first row, ending at the first row that would break a limit.            *)
C16_PeekIsBoundedPrefix ==
  last.op = "peek_window" =>
    LET all == RowsAfter(queue, last.arg.since_sequence, -1)
        window == last.arg.window
        n == Len(window)
    IN /\ n <= Len(all)
       /\ \A i \in 1..n : window[i] = all[i]
       /\ n <= last.arg.max_chunks
       /\ \/ TotalBytes(window) <= last.arg.max_bytes
          \/ n = 1 /\ payload_size(window[1]) > last.arg.max_bytes
       /\ n < Len(all) =>
            \/ n >= last.arg.max_chunks
            \/ TotalBytes(window) + payload_size(all[n + 1])
                 > last.arg.max_bytes

\* peek_window stopped below max_chunks at a row that did not fit, and a
\* later row would have fitted
C16_Witness ==
  /\ last.op = "peek_window"
  /\ LET all == RowsAfter(queue, last.arg.since_sequence, -1)
         window == last.arg.window
         n == Len(window)
     IN /\ n >= 1
        /\ n < last.arg.max_chunks
        /\ n + 2 <= Len(all)
        /\ TotalBytes(window) + payload_size(all[n + 2]) <= last.arg.max_bytes

(* C18: after every enqueue performed at time now the queue holds no row   *)
(* with created_at < now - retention_seconds, and every row inserted by    *)
(* that enqueue is present; with retention_seconds = 0 an enqueue at a     *)
(* later time removes all rows of earlier enqueues.                        *)
C18_EnqueuePrunesByAge ==
  [][last'.op = "enqueue" =>
       /\ \A r \in queue' : ~(r.created_at < now' - QueueRetention)
       /\ \A i \in (Len(returned) + 1)..Len(returned') :
            \E r \in queue' : r.sequence = returned'[i] /\ r.created_at = now'
       /\ QueueRetention = 0 =>
            {r \in queue : r.created_at < now'} \cap queue' = {}]_vars

\* an enqueue inserted rows and removed older rows that nothing had deleted
C18_Witness ==
  /\ last.op = "enqueue"
  /\ now > 0
  /\ pruned # {}
  /\ queue # {}
  /\ \A r \in queue : r.created_at = now

----------------------------------------------------------------------------
(* C13: the POST that stores the last missing chunk of an event, whatever  *)
(* the order in which its chunks came and whatever replays and chunks of   *)
(* other events came in between, is answered event_complete=true with an   *)
(* assembled payload equal to the original payload, whose hash is the      *)
(* event_sha256 of every chunk row of the event.                           *)

\* the chunk rows of one event
RowsOfEvent(cks, event) == {r \in cks : <<r.sensor_id, r.event_id>> = event}

\* the chunk rows the chunks of chunk_payload make for one event
HonestRows(event) ==
  {ChunkRow(c) : c \in {c \in HonestChunks : EventKey(c) = event}}

C13_AssemblesOriginalPayload ==
  [][(/\ last'.op = "http_ingest"
      /\ last'.arg.case = "new"
      /\ RowsOfEvent(store_chunks', last'.arg.event) = HonestRows(last'.arg.event))
     => /\ last'.arg.status = 200
        /\ last'.arg.result =
             [stored |-> TRUE, duplicate |-> FALSE, event_complete |-> TRUE]
        /\ last'.arg.payload = HonestPayload(last'.arg.event[2])
        /\ \A r \in RowsOfEvent(store_chunks', last'.arg.event) :
             Sha256(last'.arg.payload) = r.event_sha256]_vars

\* the chunk with chunk_index 0 came last and completed the two-chunk
\* event, with a chunk of another event in the store
C13_Witness ==
  /\ last.op = "http_ingest"
  /\ last.arg.case = "new"
  /\ last.arg.chunk_index = 0
  /\ last.arg.payload = HonestPayload(1)
  /\ Cardinality(DOMAIN store_events) = 2

----------------------------------------------------------------------------
(* C14: for every event at most one POST is answered with an assembled     *)
(* payload, the one whose insert first brings received_chunks to           *)
(* chunk_count; received_chunks never exceeds chunk_count; and a replay of *)
(* a chunk of an event that was assembled is answered duplicate=true,      *)
(* event_complete=true with no payload.                                    *)
C14_OneSnapshotPerEvent ==
  [][last'.op = "http_ingest" =>
       /\ \A key \in DOMAIN assembled_calls' : assembled_calls'[key] <= 1
       /\ last'.arg.payload # None =>
            /\ ~event_complete(store_events, last'.arg.event)
            /\ LET row == store_events'[last'.arg.event]
               IN row.received_chunks = row.chunk_count
       /\ \A key \in DOMAIN store_events' :
            store_events'[key].received_chunks <= store_events'[key].chunk_count
       /\ (/\ last'.arg.case = "duplicate"
           /\ last'.arg.event \in DOMAIN assembled_calls) =>
            /\ last'.arg.result =
                 [stored |-> FALSE, duplicate |-> TRUE, event_complete |-> TRUE]
            /\ last'.arg.payload = None]_vars

----------------------------------------------------------------------------
----------------------------------------------------------------------------
(* C20: the control handler registers a session only for a connection      *)
(* whose X-Sensor-ID is in the token table and whose bearer token is the   *)
(* configured one; a missing sensor id is closed with 1002, an unknown id  *)
(* or a wrong token with 1008, and then no session is registered and the   *)
(* handler never reaches the loop that invokes on_heartbeat / on_message.  *)
C20_OnlyAuthenticatedSessions ==
  [][last'.op = "control_connect" =>
       LET sensor_id == last'.arg.sensor_id
           known == sensor_id \in DOMAIN SensorTokens
           token_ok == /\ known
                       /\ last'.arg.authorization
                            \in {<<SensorTokens[sensor_id]>>,
                                 <<"Bearer ", SensorTokens[sensor_id]>>}
       IN /\ last'.arg.registered = token_ok
          /\ sensor_id = "" => last'.arg.close_code = 1002
          /\ (sensor_id # "" /\ ~token_ok) => last'.arg.close_code = 1008
          /\ token_ok => last'.arg.close_code = NULL
          /\ sessions' = IF token_ok THEN sessions \cup {sensor_id}
                         ELSE sessions
          /\ ~token_ok =>
               /\ ~last'.arg.serving
               /\ UNCHANGED <<offsets, control_out, loop_tasks>>]_vars

\* a connection naming a configured sensor that has no session, with
\* another sensor's token, was closed with 1008
C20_Witness ==
  /\ last.op = "control_connect"
  /\ last.arg.sensor_id = "s2"
  /\ last.arg.authorization = <<"Bearer ", "tok1">>
  /\ last.arg.close_code = 1008
  /\ "s2" \notin sessions

----------------------------------------------------------------------------
(* C11: when the ack of a stored chunk of the sensor is dropped because    *)
(* the sensor has no control session, then, with the session opened again, *)
(* heartbeats going on and no restart of the sensor, the sequence is       *)
(* eventually deleted from the sensor's queue.                             *)

\* the sequences in the sensor's queue
QueueSequences == {r.sequence : r \in queue}

C11_DroppedAckIsRecovered ==
  \A n \in 1..MaxFairEnqueued :
    (/\ last.op = "send_ack"
     /\ ~last.arg.returned
     /\ last.arg.sensor_id = SensorId
     /\ last.arg.sequence = n
     /\ HasChunk(store_chunks, SensorId, n)
     /\ n \in QueueSequences)
      ~> (n \notin QueueSequences)

----------------------------------------------------------------------------
----------------------------------------------------------------------------
(* C17: the agent keeps the chunk at hand until a POST of it is answered   *)
(* 200, raising the backoff interval after each failed attempt; it moves   *)
(* on to the next chunk, in ascending sequence order, only then; and with  *)
(* finitely many link failures every chunk returned by build_chunks is     *)
(* eventually stored by the server.                                        *)

\* the sequences of the chunks the agent has still to send
PendingSequences == {agent_chunks[i].sequence : i \in 1..Len(agent_chunks)}

C17_RetriesUntilDelivered ==
  /\ [][pc = "sending" =>
          \/ /\ agent_chunks' = agent_chunks
             /\ send_backoff' \in {send_backoff, next_interval(send_backoff)}
          \/ /\ agent_chunks' = Tail(agent_chunks)
             /\ send_backoff' = 0
             /\ HasChunk(store_chunks', SensorId, Head(agent_chunks).sequence)]_vars
  /\ [](\A i \in 1..Len(agent_chunks) : \A j \in 1..Len(agent_chunks) :
          i < j => agent_chunks[i].sequence < agent_chunks[j].sequence)
  /\ \A n \in 1..MaxFairEnqueued :
       (n \in PendingSequences) ~> HasChunk(store_chunks, SensorId, n)

\* a POST of the first chunk of a window of two failed: the agent holds
\* both chunks and waits for the backoff interval
C17_Witness ==
  /\ pc = "sending"
  /\ send_backoff > 0
  /\ Len(agent_chunks) = 2
  /\ ~HasChunk(store_chunks, SensorId, agent_chunks[1].sequence)

\* C21: a POST whose chunk names a sensor without a configured token, or
\* whose Authorization header is missing or carries another token than the
\* one configured for that sensor, is answered 401 and changes neither the
\* store nor the offsets, and hands no ack and no snapshot to the event loop.
C21_UnauthorizedHasNoEffect ==
  [][(last'.op = "http_ingest" /\
      ~(/\ last'.arg.key[1] \in DOMAIN SensorTokens
        /\ last'.arg.authorization
             \in {<<SensorTokens[last'.arg.key[1]]>>,
                  <<"Bearer ", SensorTokens[last'.arg.key[1]]>>})) =>
       /\ last'.arg.status = 401
       /\ UNCHANGED <<store_chunks, store_events, offsets, loop_tasks,
                      control_out, snapshot_cache>>]_vars

\* a POST for a sensor without a configured token has been refused while
\* the store holds chunks
C21_Witness ==
  /\ last.op = "http_ingest"
  /\ last.arg.status = 401
  /\ last.arg.key[1] \notin DOMAIN SensorTokens
  /\ store_chunks # {}

\* C22: for every payload, the empty one included, and every permitted
\* chunk size, chunk_payload returns max(1, ceil(len / chunk_size)) chunks,
\* indexed 0, 1, ... in order, all with the same event id, chunk count and
\* event hash, whose decompressed payloads concatenate to the payload.
C22_ChunkCountAndRoundTrip ==
  last.op = "chunk_payload" =>
    LET P == last.arg.payload
        chunks == last.arg.chunks
        chunk_count == Max(1, CeilDiv(Len(P), last.arg.chunk_size))
    IN /\ Len(chunks) = chunk_count
       /\ \A i \in 1..Len(chunks) :
            /\ chunks[i].chunk_index = i - 1
            /\ chunks[i].chunk_count = chunk_count
            /\ chunks[i].event_id = chunks[1].event_id
            /\ chunks[i].event_hash = Sha256(P)
       /\ JoinParts(chunks, 1) = P

\* C23: decoding the dictionary an envelope encodes to gives the envelope
\* back field for field, for each of the four body variants and also when
\* sent_at and capabilities were left unset.
C23_EnvelopeRoundTrip ==
  last.op = "envelope_round_trip" => last.arg.decoded = last.arg.envelope

\* C24: once shutdown has set the stop signal, the receive loop and the
\* heartbeat loop both exit and the control channel is closed, whatever the
\* agent was doing, a chunk send that keeps failing included.
C24_ShutdownTerminates ==
  stop_event ~> (pc = "done" /\ heartbeat_task = "done"
                 /\ SensorId \notin sessions)

\* C25: an envelope that is malformed or of an unknown body_type is dropped:
\* the control channel stays open, the agent does not sleep the reconnect
\* backoff, and dispatcher and queue are unchanged.
C25_BadEnvelopeIsDropped ==
  [][(AgentRecv /\ Head(control_out[SensorId]) \in BadEnvelopes) =>
       /\ SensorId \in sessions'
       /\ pc' = "recv"
       /\ UNCHANGED <<queue, dispVars>>]_vars

\* C26: build_chunks returns no chunk whose sequence was in flight under
\* another window than the request's; every chunk it returns has a sequence
\* above request.since_sequence and attributes["window_id"] =
\* request.window_id, and is afterwards in in_flight under that window and
\* in the sequence set of that window.
C26_BuildChunksTracksWhatItReturns ==
  [][last'.op = "build_chunks" =>
       LET request == last'.arg.request
           to_send == last'.arg.to_send
       IN \A i \in 1..Len(to_send) :
            LET sequence == to_send[i].sequence
            IN /\ ~(sequence \in DOMAIN in_flight
                    /\ in_flight[sequence] # request.window_id)
               /\ sequence > request.since_sequence
               /\ "window_id" \in DOMAIN to_send[i].attributes
               /\ to_send[i].attributes["window_id"] = request.window_id
               /\ sequence \in DOMAIN in_flight'
               /\ in_flight'[sequence] = request.window_id
               /\ request.window_id \in DOMAIN windows'
               /\ sequence \in windows'[request.window_id]]_vars

\* build_chunks returned a chunk and passed over a row after since_sequence
\* that is in flight under another window
C26_Witness ==
  /\ last.op = "build_chunks"
  /\ last.arg.to_send # << >>
  /\ \E r \in queue :
       /\ r.sequence > last.arg.request.since_sequence
       /\ r.sequence < last.arg.to_send[1].sequence
       /\ r.sequence \in DOMAIN in_flight
       /\ in_flight[r.sequence] # last.arg.request.window_id

\* C27: when rows at the start of the range are in flight under another
\* window, build_chunks passes over them and returns the rows after them:
\* as many as max_chunks, taken from the first 2 * max_chunks rows after
\* since_sequence that are not in flight under another window (the byte
\* limit and the in-flight limit standing aside), and so never the empty
\* list while such a row exists.
C27_SkippedRowsAreReplaced ==
  [][last'.op = "build_chunks" =>
       LET request == last'.arg.request
           fetched == RowsAfter(queue, request.since_sequence,
                                request.max_chunks * 2)
           eligible == {i \in 1..Len(fetched) :
                          ~(fetched[i].sequence \in DOMAIN in_flight
                            /\ in_flight[fetched[i].sequence]
                                 # request.window_id)}
       IN (request.max_in_flight = 0
           /\ TotalBytes(fetched) <= request.max_bytes) =>
            Len(last'.arg.to_send)
              = Min(request.max_chunks, Cardinality(eligible))]_vars

\* C28: with request.max_in_flight = M > 0, build_chunks leaves at most
\* max(M, size of in_flight before the call) entries in in_flight, and
\* tracks nothing when in_flight already holds M entries; with M = 0 it
\* returns every row peek_window gave it that is not in flight under
\* another window.
C28_InFlightBound ==
  [][last'.op = "build_chunks" =>
       LET request == last'.arg.request
           M == request.max_in_flight
           before == Cardinality(DOMAIN in_flight)
           records == peek_window(queue, request.since_sequence,
                                  request.max_chunks, request.max_bytes)
           own == {i \in 1..Len(records) :
                     ~(records[i].sequence \in DOMAIN in_flight
                       /\ in_flight[records[i].sequence] # request.window_id)}
       IN /\ M > 0 => Cardinality(DOMAIN in_flight') <= Max(M, before)
          /\ (M > 0 /\ before >= M) =>
               (in_flight' = in_flight /\ last'.arg.to_send = << >>)
          /\ M = 0 => Len(last'.arg.to_send) = Cardinality(own)]_vars

\* build_chunks stopped at the limit: it returned one chunk, in_flight holds
\* max_in_flight entries, and a later row of the request's range is not
\* in flight
C28_Witness ==
  /\ last.op = "build_chunks"
  /\ last.arg.request.max_in_flight = 1
  /\ last.arg.request.max_chunks = 2
  /\ Len(last.arg.to_send) = 1
  /\ Cardinality(DOMAIN in_flight) = 1
  /\ \E r \in queue : /\ r.sequence > last.arg.to_send[1].sequence
                      /\ r.sequence \notin DOMAIN in_flight
                      /\ payload_size(r) + payload_size(last.arg.to_send[1])
                           <= last.arg.request.max_bytes

\* C29: after handle_ack no committed sequence is left in in_flight or in
\* the sequence set of any window, and no window record with an empty set is
\* left; and whenever every sequence build_chunks handed out under a window
\* has been acked, windows has no record of that window and no in_flight
\* entry names it.
C29_AckReleasesAndEmptiesWindows ==
  /\ [][last'.op = "handle_ack" =>
          /\ \A sequence \in Range(last'.arg.ack.committed_sequences) :
               /\ sequence \notin DOMAIN in_flight'
               /\ \A w \in DOMAIN windows' : sequence \notin windows'[w]
          /\ \A w \in DOMAIN windows' : windows'[w] # {}]_vars
  /\ [](\A w \in WindowIds :
          (\A p \in outstanding : p[1] # w) =>
            /\ w \notin DOMAIN windows
            /\ \A sequence \in DOMAIN in_flight : in_flight[sequence] # w)

\* an ack released the last sequence handed out under one window, whose
\* record is gone, while a sequence of another window is still out
C29_Witness ==
  /\ last.op = "handle_ack"
  /\ last.arg.released
  /\ ~last.arg.ack.reset_window
  /\ DOMAIN windows # {}
  /\ \E w \in WindowIds : /\ w \notin DOMAIN windows
                          /\ \A p \in outstanding : p[1] # w

\* C30: handle_ack with reset_window = TRUE drops the record of
\* ack.window_id and, the committed sequences apart, leaves in_flight as it
\* was, entries of the reset window included, and leaves the records of the
\* other windows as they were.
C30_ResetDropsOnlyTheRecord ==
  [][(last'.op = "handle_ack" /\ last'.arg.ack.reset_window) =>
       LET ack == last'.arg.ack
           committed == Range(ack.committed_sequences)
       IN /\ ack.window_id \notin DOMAIN windows'
          /\ DOMAIN in_flight' = DOMAIN in_flight \ committed
          /\ \A sequence \in DOMAIN in_flight' :
               in_flight'[sequence] = in_flight[sequence]
          /\ \A w \in DOMAIN windows \ {ack.window_id} :
               IF windows[w] \subseteq committed
               THEN w \notin DOMAIN windows'
               ELSE /\ w \in DOMAIN windows'
                    /\ windows'[w] = windows[w] \ committed
          /\ DOMAIN windows' \subseteq DOMAIN windows]_vars

\* a reset dropped the record of a window of which a sequence that was not
\* committed is still flagged in in_flight
C30_Witness ==
  /\ last.op = "handle_ack"
  /\ last.arg.ack.reset_window
  /\ last.arg.ack.window_id \notin DOMAIN windows
  /\ \E sequence \in DOMAIN in_flight :
       /\ in_flight[sequence] = last.arg.ack.window_id
       /\ sequence \notin Range(last.arg.ack.committed_sequences)

\* C31: last_ack_sequence never decreases while the dispatcher lives; after
\* handle_ack it is the larger of its previous value and the largest
\* committed sequence, in whatever order the list came and whether or not
\* the rows were still queued, and an ack with an empty list leaves it as it
\* was.
C31_LastAckIsRunningMaximum ==
  /\ [][last'.op = "handle_ack" =>
          LET committed == Range(last'.arg.ack.committed_sequences)
          IN last_ack_sequence' =
               IF committed = {} THEN last_ack_sequence
               ELSE Max(last_ack_sequence, SetMax(committed))]_vars
  /\ [][last'.op # "restart" => last_ack_sequence' >= last_ack_sequence]_vars

\* an ack listing its largest sequence first, of rows no longer queued,
\* raised last_ack_sequence to that sequence
C31_Witness ==
  /\ last.op = "handle_ack"
  /\ last.arg.ack.committed_sequences = <<2, 1>>
  /\ ~last.arg.deleted
  /\ last_ack_sequence = 2
  /\ Len(returned) = 2

\* C32: every ingest the store accepts, stored or duplicate, raises the
\* sensor's offset to the chunk's sequence (if it was lower) and hands the
\* event loop exactly one send_ack, for that sensor, with that one sequence
\* and the window id of chunk.attributes["window_id"], or "default" when the
\* chunk has none: a chunk posted again is acked again.
C32_AcceptedIngestIsAcked ==
  [][(last'.op = "http_ingest" /\ last'.arg.status = 200) =>
       LET sensor_id == last'.arg.key[1]
           sequence == last'.arg.key[2]
           attributes == last'.arg.attributes
           new == SubSeq(loop_tasks', Len(loop_tasks) + 1, Len(loop_tasks'))
           acks == SelectSeq(new, LAMBDA task : task.kind = "send_ack")
       IN /\ offsets'[sensor_id] = Max(offsets[sensor_id], sequence)
          /\ SubSeq(loop_tasks', 1, Len(loop_tasks)) = loop_tasks
          /\ acks = <<[kind |-> "send_ack",
                       sensor_id |-> sensor_id,
                       sequence |-> sequence,
                       window_id |-> IF "window_id" \in DOMAIN attributes
                                     THEN attributes["window_id"]
                                     ELSE "default"]>>]_vars

\* a chunk that was stored before is posted again with a window id and is
\* answered as a duplicate
C32_Witness ==
  /\ last.op = "http_ingest"
  /\ last.arg.status = 200
  /\ last.arg.result.duplicate
  /\ "window_id" \in DOMAIN last.arg.attributes
  /\ loop_tasks # << >>

----------------------------------------------------------------------------
\* C33: when worker threads run ChunkStore.ingest at the same time, the
\* outcome is that of some serial order of the calls: no call ends in a
\* constraint error, one (sensor_id, sequence) is reported stored by at most
\* one of the calls, and once the calls are over received_chunks of every
\* event is the number of its stored chunk rows and an event whose chunks
\* are all stored is marked complete.
C33_ConcurrentIngestIsSerial ==
  /\ \A w \in Workers :
       workers[w].pc = "done"
         => workers[w].error \notin {"IntegrityError chunks",
                                     "IntegrityError events"}
  /\ \A w1 \in Workers, w2 \in Workers :
       (/\ w1 # w2
        /\ workers[w1].pc = "done"
        /\ workers[w2].pc = "done"
        /\ ChunkKey(workers[w1].chunk) = ChunkKey(workers[w2].chunk))
         => ~(workers[w1].result.stored /\ workers[w2].result.stored)
  /\ (\A w \in Workers : workers[w].pc \in {"idle", "done"})
       => \A key \in DOMAIN store_events :
            LET rows == RowsOfEvent(store_chunks, key)
            IN /\ store_events[key].received_chunks = Cardinality(rows)
               /\ Cardinality(rows) = store_events[key].chunk_count
                    => store_events[key].completed_at # NULL

----------------------------------------------------------------------------
\* C34: after an accepted (non-duplicate) ingest at time now the store holds
\* no event row completed before now - retention_seconds and no chunk row
\* of such an event, while the rows of every other event are kept, those of
\* another sensor under the same sequence number included.
C34_PruneRemovesExpiredEventsAndChunks ==
  [][(last'.op = "http_ingest" /\ last'.arg.result.stored)
       => LET cutoff == now - StoreRetention
              Expired == {key \in DOMAIN store_events :
                            /\ store_events[key].completed_at # NULL
                            /\ store_events[key].completed_at < cutoff}
          IN /\ \A key \in DOMAIN store_events' :
                  \/ store_events'[key].completed_at = NULL
                  \/ store_events'[key].completed_at >= cutoff
             /\ \A key \in Expired : RowsOfEvent(store_chunks', key) = {}
             /\ \A key \in DOMAIN store_events \ Expired :
                  key \in DOMAIN store_events'
             /\ \A r \in store_chunks :
                  <<r.sensor_id, r.event_id>> \notin Expired
                    => r \in store_chunks']_vars

----------------------------------------------------------------------------
\* C35: update_from_ingest returns None and leaves the cache as it is unless
\* the result has event_complete and a non-empty assembled_payload; then it
\* returns the new snapshot and replaces the entry of result.sensor_id and
\* no other.
C35_UpdateFromIngestReplacesOneEntry ==
  [][last'.op = "update_from_ingest"
       => LET ingest == last'.arg.ingest
              snapshot == last'.arg.returned
          IN IF /\ ingest.event_complete
                /\ ingest.assembled_payload \notin {None, << >>}
             THEN /\ snapshot = [event_id |-> ingest.event_id,
                                 payload |-> ingest.assembled_payload]
                  /\ snapshot_cache'[ingest.sensor_id] = snapshot
                  /\ \A s \in Sensors \ {ingest.sensor_id} :
                       snapshot_cache'[s] = snapshot_cache[s]
             ELSE /\ snapshot = NoSnapshot
                  /\ snapshot_cache' = snapshot_cache]_vars

\* an entry was replaced while the other sensor has a snapshot of its own
C35_Witness ==
  /\ last.op = "update_from_ingest"
  /\ last.arg.returned # NoSnapshot
  /\ snapshot_cache[last.arg.ingest.sensor_id].event_id = 2
  /\ \E s \in Sensors \ {last.arg.ingest.sensor_id} :
       snapshot_cache[s] # NoSnapshot /\ snapshot_cache[s].event_id = 1

----------------------------------------------------------------------------
\* C36: a publish sends its message exactly once to every observer that is
\* registered when it starts; an observer whose send raises is removed from
\* the client set and the others are still sent to; an observer rejected
\* for its token is never in the client set.
C36_BroadcastReachesEveryObserverOnce ==
  [][/\ last'.op = "published"
          => LET task == last'.arg.task
             IN /\ task.targets = clients
                /\ Range(task.attempts) = task.targets
                /\ Len(task.attempts) = Cardinality(task.targets)
                /\ clients' = clients \ task.dead
     /\ last'.op \in {"send", "published"}
          => \E o \in Observers :
               /\ \/ delivered'[o] = delivered[o]
                  \/ delivered'[o] =
                       Append(delivered[o],
                              coroutines[last'.arg.coroutine].message)
               /\ \A other \in Observers \ {o} :
                    delivered'[other] = delivered[other]
     /\ last'.op = "rejected"
          => last'.arg.observer \notin clients' /\ clients' = clients
     /\ \A o \in clients' :
          constant_time_compare(<<StreamToken>>,
                                extract_bearer(coroutines'[o].authorization))
    ]_vars

\* a publish to two observers is over: the first send raised, the second
\* observer got the message
C36_Witness ==
  /\ last.op = "published"
  /\ Len(last.arg.task.attempts) = 2
  /\ last.arg.task.dead = {last.arg.task.attempts[1]}
  /\ last.arg.task.message.type = "snapshot"
  /\ delivered[last.arg.task.attempts[2]] # << >>
  /\ clients = {last.arg.task.attempts[2]}

----------------------------------------------------------------------------
\* C37: the first message a connection receives is the snapshot_batch, also
\* when a broadcast runs while its handler does, and a connection is sent
\* no batch but its own.
C37_BatchFirstAndOnlyToTheNewObserver ==
  \A o \in Observers :
    /\ delivered[o] # << >> => delivered[o][1].type = "snapshot_batch"
    /\ Cardinality({i \in DOMAIN delivered[o] :
                      delivered[o][i].type = "snapshot_batch"}) <= 1

\* C38: whenever control.recv raises in SensorAgent.run, the channel is
\* closed and run sleeps one backoff interval, which is base after a
\* success and otherwise the last one times factor, max_interval at most;
\* from that sleep run goes to the handshake heartbeat and only from there
\* to its next recv, the heartbeat reaching the server if the channel is
\* connected; every envelope recv returns resets the backoff.
C38_RecvFailureBacksOffAndHandshakes ==
  [][/\ last'.op = "recv_raised"
        => /\ pc = "recv"
           /\ SensorId \notin sessions'
           /\ pc' = "recv_sleep"
           /\ recv_backoff' = IF recv_backoff = 0
                              THEN BackoffBase
                              ELSE Min(recv_backoff * BackoffFactor,
                                       BackoffMax)
     /\ (pc = "recv_sleep" /\ pc' # pc) => pc' \in {"handshake", "done"}
     /\ (pc = "handshake" /\ pc' # pc)
        => \/ pc' = "done"
           \/ /\ pc' = "recv"
              /\ SensorId \in sessions
                 => offsets' = offsets_update(offsets, SensorId,
                                              last_ack_sequence)
     /\ (pc = "recv" /\ SensorId \in sessions'
         /\ control_out[SensorId] # << >>
         /\ control_out'[SensorId] = Tail(control_out[SensorId]))
        => recv_backoff' = 0]_vars

\* recv has raised often enough in a row for the interval to be at
\* max_interval
C38_Witness ==
  /\ last.op = "recv_raised"
  /\ pc = "recv_sleep"
  /\ BackoffBase < BackoffMax
  /\ recv_backoff = BackoffMax

\* C39: a sensor's open, authenticated control connection is the one the
\* registry maps its sensor_id to, also when the handler of its previous
\* connection unregisters after the new session was registered, and
\* send_ack and send_chunk_request return true for a sensor that has such
\* a connection.
C39_ReconnectKeepsNewSession ==
  /\ \A k \in Connections :
       (handlers[k].pc = "serving" /\ handlers[k].live)
       => control_sessions[handlers[k].sensor_id] = k
  /\ (/\ last.op \in {"send_ack", "send_chunk_request"}
      /\ LiveConnection(last.arg.sensor_id))
     => last.arg.returned

\* C40: whatever build_chunks and handle_ack calls a dispatcher has served,
\* every sequence in the set of a window w has in_flight[sequence] = w, no
\* sequence is in the sets of two windows, and no window record has an
\* empty set.
C40_WindowsAgreeWithInFlight ==
  /\ \A w \in DOMAIN windows :
       /\ windows[w] # {}
       /\ \A sequence \in windows[w] :
            /\ sequence \in DOMAIN in_flight
            /\ in_flight[sequence] = w
  /\ \A w1 \in DOMAIN windows, w2 \in DOMAIN windows :
       w1 # w2 => windows[w1] \cap windows[w2] = {}

\* two windows have sequences out, after an ack that reset a window and
\* left a sequence in flight under it without a record
C40_Witness ==
  /\ DOMAIN windows # {}
  /\ \E sequence \in DOMAIN in_flight :
       in_flight[sequence] \notin DOMAIN windows
  /\ \E sequence \in DOMAIN in_flight :
       in_flight[sequence] \in DOMAIN windows

====
